---- MODULE Spec2Model ----
(***************************************************************************)
(* raven-oss-tools: the chunked authenticated-encryption transfer pipeline *)
(* (src/src/crypt.rs, src/src/utils.rs, src/src/client.rs and the rot and  *)
(* rcrypt binaries).                                                       *)
(*                                                                         *)
(* A behaviour is one user session on one machine and one bucket: a first  *)
(* command (encrypt_file or upload_file) over the local file "plain", an   *)
(* optional change of the stored ciphertext by the environment, and a      *)
(* second command (decrypt_file or download_file).  Every command is a     *)
(* process of its own, stepped statement by statement.  Any local or       *)
(* remote call may fail; besides, the environment interferes at most once  *)
(* in a session (a stored byte changed or lost, an input file truncated    *)
(* under the reader, a connection that ends early or states no length).    *)
(*                                                                         *)
(* Bytes.  A stream is a sequence of bytes; a byte is a sequence of        *)
(* integers.  A data byte is <<b>>, b \in 0..ByteMod-1.  A byte of an      *)
(* AES-256-GCM tag is <<key, nonce, aad, j>> \o Flatten(ciphertext): the   *)
(* tag is modelled as a collision-free function of what GCM authenticates  *)
(* (the perfect-cryptography assumption), so that a tag verifies exactly   *)
(* when key, nonce, associated data and ciphertext are those it was made   *)
(* from.  The CTR key stream is computed, per position, from key and       *)
(* nonce.                                                                  *)
(*                                                                         *)
(* Sizes are scaled: CHUNK_SIZE is 2 bytes for 5 MiB, TAG_LEN 2 for 16.    *)
(***************************************************************************)
EXTENDS Integers, Sequences, FiniteSets, TLC

\* ------------------------------------------------------------ bounds

\* The longest local input file, in bytes.
MaxFileLen == 4

\* The longest name given to get_crypt_file_name.
MaxNameLen == 3

\* The most remote calls one of two concurrent transfers makes.
MaxRemoteCalls == 3

\* The most sealed chunks a rearranged stream is built from.
MaxSplice == 3

\* The longest configuration file a session starts with, in tokens.
MaxConfigLen == 2

\* The most load_from_env runs of a session.
MaxLoads == 3

\* The most arguments after the program name given to from_strings.
MaxArgs == 3

\* The longest path given to sanitize_prefix_path, in characters.
MaxPathLen == 4

\* ------------------------------------------------- program constants

\* constant.rs:9, scaled from 1024 * 1024 * 5.
CHUNK_SIZE == 2

\* ring::aead::chacha20_poly1305_openssh::TAG_LEN (crypt.rs:4), scaled from 16;
\* the same length as the AES-256-GCM tag.
TAG_LEN == 2

\* constant.rs:11.
CHUNK_SIZE_WITH_TAG == CHUNK_SIZE + TAG_LEN

\* constant.rs:3, [200u8; NONCE_LEN]: one fixed nonce, named by its byte.
NONCE == 200

\* constant.rs:5 and 7: the fixed associated data and salt, named by a number each.
AAD == 5

SALT == 7

\* The values of a data byte are 0 .. ByteMod - 1.
ByteMod == 2

DataBytes == {<<b>> : b \in 0..(ByteMod - 1)}

Passwords == {1, 2}

\* Option<T>: None is <<>>, Some(x) is <<x>>.
None == <<>>

Some(x) == <<x>>

\* ------------------------------------------------------------- helpers

Min(a, b) == IF a < b THEN a ELSE b

\* usize::div_ceil
DivCeil(n, d) == (n + d - 1) \div d

RECURSIVE Flatten(_)
\* A sequence of bytes as one sequence of integers, each byte behind its length
\* (injective).
Flatten(s) ==
    IF s = <<>> THEN <<>>
    ELSE <<Len(Head(s))>> \o Head(s) \o Flatten(Tail(s))

RECURSIVE Sum(_)
\* The sum of a sequence of numbers.
Sum(ns) == IF ns = <<>> THEN 0 ELSE Head(ns) + Sum(Tail(ns))

RECURSIVE Concat(_)
\* The concatenation of a sequence of sequences.
Concat(ss) == IF ss = <<>> THEN <<>> ELSE Head(ss) \o Concat(Tail(ss))

\* Chunk k of a file cut into chunks of c bytes.
ChunkOf(file, k, c) == SubSeq(file, (k - 1) * c + 1, Min(k * c, Len(file)))

IsDataByte(x) == Len(x) = 1

\* ---------------------------------------------------------- crypt.rs

\* derive_key: PBKDF2-HMAC-SHA256 of (password, salt), a deterministic function
\* without collisions on the model's passwords (each below 4).
derive_key(password, salt) == salt * 4 + password

\* A key derived without the salt.
setup_key_unsalted(password) == derive_key(password, 0)

\* setup_key: the key of a password under the fixed SALT.
setup_key(password) == derive_key(password, SALT)

\* The key stream byte of AES-CTR at position i of a chunk: a function of key and
\* nonce only, the same for every chunk.
KeyStream(key, nonce, i) == (key + nonce + i) % ByteMod

CtrEncrypt(key, nonce, data) ==
    [i \in 1..Len(data) |->
        IF IsDataByte(data[i])
        THEN <<(data[i][1] + KeyStream(key, nonce, i)) % ByteMod>>
        ELSE data[i]]

\* A decryption that leaves the key stream on the data.
CtrDecrypt_raw(key, nonce, data) == data

CtrDecrypt(key, nonce, data) ==
    [i \in 1..Len(data) |->
        IF IsDataByte(data[i])
        THEN <<(data[i][1] + ByteMod - KeyStream(key, nonce, i)) % ByteMod>>
        ELSE data[i]]

\* The GCM tag over (key, nonce, aad, ciphertext): TAG_LEN bytes.
GcmTag(key, nonce, aad, ct) ==
    [j \in 1..TAG_LEN |-> <<key, nonce, aad, j>> \o Flatten(ct)]

\* LessSafeKey::seal_in_place_append_tag: in_out becomes ciphertext followed by the tag.
seal_in_place_append_tag(key, nonce, aad, in_out) ==
    LET ct == CtrEncrypt(key, nonce, in_out)
    IN  ct \o GcmTag(key, nonce, aad, ct)

\* LessSafeKey::open_in_place: Err on a buffer shorter than the tag or a tag that
\* does not verify; otherwise the plaintext overwrites the front of in_out, whose
\* length does not change (the tag bytes stay behind it).
open_in_place(key, nonce, aad, in_out) ==
    IF Len(in_out) < TAG_LEN
    THEN [ok |-> FALSE, in_out |-> in_out]
    ELSE LET n   == Len(in_out) - TAG_LEN
             ct  == SubSeq(in_out, 1, n)
             tag == SubSeq(in_out, n + 1, Len(in_out))
         IN  IF tag = GcmTag(key, nonce, aad, ct)
             THEN [ok |-> TRUE, in_out |-> CtrDecrypt(key, nonce, ct) \o tag]
             ELSE [ok |-> FALSE, in_out |-> in_out]

\* A seal whose tag is not kept with the ciphertext.
encrypt_untagged(payload, key) == CtrEncrypt(key, NONCE, payload)

\* encrypt: the sealed copy of payload.
encrypt(payload, key) == seal_in_place_append_tag(key, NONCE, AAD, payload)

\* A decrypt whose error is dropped: the buffer is returned whatever open_in_place said.
decrypt_unchecked(payload, key) ==
    [ok |-> TRUE, in_out |-> open_in_place(key, NONCE, AAD, payload).in_out]

\* decrypt: [ok, in_out]; ok = FALSE is the unwrap_or_exit inside decrypt (the
\* process exits); on success the WHOLE in_out buffer is returned.
decrypt(payload, key) == open_in_place(key, NONCE, AAD, payload)

\* A closure that writes the whole buffer decrypt returned.
StripTag_keep(result) == result

\* The closure of decrypt_file and _download_file on a successful decrypt:
\* result[..result.len() - TAG_LEN].
StripTag(result) == SubSeq(result, 1, Len(result) - TAG_LEN)


\* ---------------------------------------------------------------- state

VARIABLES
    fs,        \* the local files: path -> bytes
    object,    \* the remote object under the session's key: None or Some(body)
    mpu,       \* the store's multipart upload: [state, parts]
    calls,     \* the remote calls of the running command, in order, as the store saw them
    run,       \* the running (or last) command: its position and locals
    prev,      \* the session's first command once the second has started
    interfered, \* the environment interfered (at most once in a session): it changed
               \* a stored ciphertext, truncated an input file or cut the connection
    client,    \* the Mutex around the client handle: None, or Some(task) holding the guard
    tasks      \* the transfers that share the client handle: task -> [pc, ...]

vars == <<fs, object, mpu, calls, run, prev, interfered, client, tasks>>

\* The transfers that share one client handle.
Tasks == {"upload", "download"}

\* A transfer that was not started.
NoTask == [pc |-> "none", remote_calls |-> 0, remote_left |-> 0]

UnchangedShared == UNCHANGED <<client, tasks>>

UnchangedSession == UNCHANGED <<fs, object, mpu, calls, run, prev, interfered>>

Paths == {"plain", "enc", "dec", "dl"}

\* The input files of a session.
Files == UNION {[1..n -> DataBytes] : n \in 0..MaxFileLen}

NoRun ==
    [op |-> "none", pc |-> "idle", status |-> "none", cause |-> "none",
     reported |-> FALSE,
     password |-> None, key |-> 0, input |-> "none", output |-> "none",
     \* FileChunkIterator
     file_size |-> 0, chunk_size |-> 0, original_file_size |-> 0, pos |-> 0,
     \* the chunk in hand
     buffer |-> <<>>, result |-> <<>>, write_buffer |-> <<>>,
     \* upload_file
     named |-> TRUE, upload_id |-> 0, part_number |-> 0, upload_parts |-> <<>>,
     \* download_file: the response (body, the bytes the connection delivers,
     \* content_length) and content_len_usize
     body |-> <<>>, avail |-> 0, content_length |-> None, content_len |-> 0,
     \* what the command has done so far: the chunks read, the blocks handed to
     \* the sink, whether the output was flushed
     chunks_in |-> <<>>, chunks_out |-> <<>>, unflushed |-> FALSE, flushes |-> 0,
     \* get_crypt_file_name: its arguments, its result, and the result of naming
     \* the decryption of the file so named
     path |-> <<>>, is_encrypt |-> FALSE, filename |-> None, back |-> None,
     \* _process_crypt_file: the directory of the input path and the output path
     \* given on the command line
     dir |-> "none", output_path |-> None,
     \* load_from_env: the text read, the parsed configuration, the value returned
     text |-> <<>>, config |-> None, returned |-> None,
     \* from_strings: the arguments, the iterator over them, and the result
     args |-> <<>>, iter |-> <<>>, flags |-> <<>>, positional |-> <<>>,
     main_command |-> None, optional |-> <<>>,
     \* sanitize_prefix_path: the iterator over the characters and the byte index
     chars |-> <<>>, index |-> 0]

NoUpload == [state |-> "none", id |-> 0, parts |-> <<>>]

\* A command ran to its end: the process ended, or the caller printed its line.
Settled(r) == r.status \in {"err", "exit", "panic"} \/ (r.status = "ok" /\ r.reported)

\* What the session keeps of its first command.
Summary(r) ==
    [NoRun EXCEPT !.op = r.op, !.status = r.status, !.cause = r.cause,
                  !.password = r.password, !.reported = r.reported]

\* A command has ended when it returned or the process ended.
Ended(r) == r.status \in {"ok", "err", "exit", "panic"}

Failed(r) == r.status \in {"err", "exit", "panic"}

\* A failure that is printed and then ignored: the command goes on.
unwrap_or_log(r, why) == [r EXCEPT !.cause = why]

\* A failure handed back to the caller as an error value.
unwrap_or_return(r, why) == [r EXCEPT !.status = "err", !.cause = why, !.pc = "returned"]

\* UnwrapOrExit for Result / Option (utils.rs): on Err or None the message is
\* printed and std::process::exit(1) ends the process where it stands.
unwrap_or_exit(r, why) == [r EXCEPT !.status = "exit", !.cause = why]

\* Result::unwrap / expect: a panic ends the process.
unwrap_panic(r, why) == [r EXCEPT !.status = "panic", !.cause = why]

Init ==
    /\ fs \in {[p \in Paths |-> IF p = "plain" THEN f ELSE <<>>] : f \in Files}
    /\ object = None
    /\ mpu = NoUpload
    /\ calls = <<>>
    /\ run = NoRun
    /\ prev = NoRun
    /\ interfered = FALSE
    /\ client = None
    /\ tasks = [t \in Tasks |-> NoTask]

\* ------------------------------------------- utils.rs: FileChunkIterator

\* FileChunkIterator::new: the size of the file is captured from its metadata.
FileChunkIterator_new(r, path, chunk_size) ==
    [r EXCEPT !.file_size = Len(fs[path]), !.original_file_size = Len(fs[path]),
              !.chunk_size = chunk_size, !.pos = 0]

\* read_chunk's request: min(remaining, chunk_size).
to_read(r) == IF r.file_size >= r.chunk_size THEN r.chunk_size ELSE r.file_size

\* A read that is content with whatever the file still holds.
read_ok(file, pos, n) == TRUE

\* read_exact fills the whole buffer or is an error (UnexpectedEof).
read_exact_ok(file, pos, n) == pos + n <= Len(file)

\* A read_chunk that reads the chunk after this one too, before this one is used.
read_chunk_ahead(r) ==
    LET n == to_read(r)
        m == Min(r.file_size - n, r.chunk_size)
    IN  [r EXCEPT !.buffer = SubSeq(fs[r.input], r.pos + 1, Min(r.pos + n, Len(fs[r.input]))),
                  !.pos = r.pos + n,
                  !.file_size = r.file_size - n,
                  !.chunks_in = IF m > 0 THEN Append(Append(r.chunks_in, n), m)
                                ELSE Append(r.chunks_in, n)]

\* A read_chunk that forgets to count down what it has read.
read_chunk_keep_size(r) ==
    LET n == to_read(r)
    IN  [r EXCEPT !.buffer = SubSeq(fs[r.input], r.pos + 1, Min(r.pos + n, Len(fs[r.input]))),
                  !.pos = r.pos + n,
                  !.chunks_in = Append(r.chunks_in, n)]

\* read_chunk returning Ok(Some(buffer)): the buffer is what the file holds of the
\* requested range (all of it after read_exact); the cursor and the remaining
\* size move by what was requested.
read_chunk_some(r) ==
    LET n == to_read(r)
    IN  [r EXCEPT !.buffer = SubSeq(fs[r.input], r.pos + 1, Min(r.pos + n, Len(fs[r.input]))),
                  !.pos = r.pos + n,
                  !.file_size = r.file_size - n,
                  !.chunks_in = Append(r.chunks_in, n)]

\* ------------------------------------------------ crypt.rs: process_file

\* encrypt_file / decrypt_file: process_file with the chunk size and the closure
\* of the direction.
StartCodec(op, input, output, pw) ==
    [NoRun EXCEPT !.op = op, !.pc = "open", !.status = "running",
                  !.password = Some(pw), !.input = input, !.output = output]

UnchangedRemote == UNCHANGED <<object, mpu, calls>>

\* rcrypt en / rot encrypt: the session's first command.
StartEncryptFile ==
    /\ run.op = "none"
    /\ \E pw \in Passwords : run' = StartCodec("encrypt_file", "plain", "enc", pw)
    /\ UNCHANGED <<fs, prev, interfered>>
    /\ UnchangedRemote
    /\ UnchangedShared

\* rcrypt de / rot decrypt: the second command of a session that began with
\* encrypt_file.
StartDecryptFile ==
    /\ run.op = "encrypt_file"
    /\ Settled(run)
    /\ prev.op = "none"
    /\ \E pw \in Passwords : run' = StartCodec("decrypt_file", "enc", "dec", pw)
    /\ prev' = Summary(run)
    /\ UNCHANGED <<fs, interfered>>
    /\ UnchangedRemote
    /\ UnchangedShared

IsCodec == run.op \in {"encrypt_file", "decrypt_file"} /\ run.status = "running"

codec_chunk_size(op) == IF op = "encrypt_file" THEN CHUNK_SIZE ELSE CHUNK_SIZE_WITH_TAG

\* File::open(input_path) and FileChunkIterator::new, each unwrap_or_exit.
PF_OpenInput ==
    /\ IsCodec
    /\ run.pc = "open"
    /\ \/ run' = [FileChunkIterator_new(run, run.input, codec_chunk_size(run.op))
                    EXCEPT !.pc = "create"]
       \/ run' = unwrap_or_exit(run, "io")
    /\ UNCHANGED <<fs, prev, interfered>>
    /\ UnchangedRemote
    /\ UnchangedShared

\* File::create(output_path)?, then setup_key(password).  An Err of process_file
\* reaches unwrap_or_exit in encrypt_file / decrypt_file.  The file is created
\* when the path does not name a directory.
PF_CreateOutput ==
    /\ IsCodec
    /\ run.pc = "create"
    /\ \/ /\ run.output \in Paths
          /\ fs' = [fs EXCEPT ![run.output] = <<>>]
          /\ run' = [run EXCEPT !.pc = "read", !.key = setup_key(run.password[1])]
       \/ /\ run' = unwrap_or_exit(run, "io")
          /\ UNCHANGED fs
    /\ UNCHANGED <<prev, interfered>>
    /\ UnchangedRemote
    /\ UnchangedShared

\* iter.read_chunk().await.unwrap_or_exit(..): None ends the loop and process_file
\* returns Ok(()).
PF_ReadChunk ==
    /\ IsCodec
    /\ run.pc = "read"
    /\ \/ /\ run.file_size = 0
          /\ run' = [run EXCEPT !.pc = "returned", !.status = "ok"]
       \/ /\ run.file_size > 0
          /\ read_exact_ok(fs[run.input], run.pos, to_read(run))
          /\ run' = [read_chunk_some(run) EXCEPT !.pc = "operation"]
       \/ /\ run.file_size > 0
          /\ ~read_exact_ok(fs[run.input], run.pos, to_read(run))
          /\ run' = unwrap_or_exit(run, "eof")
       \/ /\ run.file_size > 0
          /\ run' = unwrap_or_exit(run, "io")
    /\ UNCHANGED <<fs, prev, interfered>>
    /\ UnchangedRemote
    /\ UnchangedShared

\* operation(&less_safe_key, &buffer): encrypt, or decrypt and strip the tag.
PF_Operation ==
    /\ IsCodec
    /\ run.pc = "operation"
    /\ \/ /\ run.op = "encrypt_file"
          /\ run' = [run EXCEPT !.pc = "write",
                                !.write_buffer = encrypt(run.buffer, run.key)]
       \/ /\ run.op = "decrypt_file"
          /\ decrypt(run.buffer, run.key).ok
          /\ run' = [run EXCEPT !.pc = "opened",
                                !.result = decrypt(run.buffer, run.key).in_out]
       \/ /\ run.op = "decrypt_file"
          /\ ~decrypt(run.buffer, run.key).ok
          /\ run' = unwrap_or_exit(run, "auth")
    /\ UNCHANGED <<fs, prev, interfered>>
    /\ UnchangedRemote
    /\ UnchangedShared

\* result[..result.len() - TAG_LEN].to_vec()
PF_StripTag ==
    /\ IsCodec
    /\ run.pc = "opened"
    /\ run' = [run EXCEPT !.pc = "write", !.write_buffer = StripTag(run.result)]
    /\ UNCHANGED <<fs, prev, interfered>>
    /\ UnchangedRemote
    /\ UnchangedShared

\* output_file.write_all(&processed_data).await?
PF_Write ==
    /\ IsCodec
    /\ run.pc = "write"
    /\ \/ /\ fs' = [fs EXCEPT ![run.output] = @ \o run.write_buffer]
          /\ run' = [run EXCEPT !.pc = "read", !.unflushed = TRUE,
                                !.chunks_out = Append(run.chunks_out, Len(run.write_buffer))]
       \/ /\ run' = unwrap_or_exit(run, "io")
          /\ UNCHANGED fs
    /\ UNCHANGED <<prev, interfered>>
    /\ UnchangedRemote
    /\ UnchangedShared

\* _encrypt / _decrypt (rot.rs): the success line after the codec returned.
ReportCodec ==
    /\ run.op \in {"encrypt_file", "decrypt_file"}
    /\ run.status = "ok"
    /\ ~run.reported
    /\ run' = [run EXCEPT !.reported = TRUE]
    /\ UNCHANGED <<fs, prev, interfered>>
    /\ UnchangedRemote
    /\ UnchangedShared

\* ------------------------------------------ crypt.rs: get_crypt_file_name

\* The characters of a name: a letter, the dot, and "?" for a unit that is not
\* valid Unicode.
NameChars == {"a", ".", "?"}

\* The final path components get_crypt_file_name is given.
PathNames == UNION {[1..n -> NameChars] : n \in 0..MaxNameLen}

\* Path::file_name on a path of one component: None for the empty path, "." and
\* "..".
file_name(path) == IF path \in {<<>>, <<".">>, <<".", ".">>} THEN None ELSE Some(path)

\* OsStr::to_str: None unless the name is valid Unicode.
to_str(name) == IF \E i \in 1..Len(name) : name[i] = "?" THEN None ELSE Some(name)

\* The positions of the dots of a name.
Dots(name) == {i \in 1..Len(name) : name[i] = "."}

\* The position of the last dot of a name that has one.
LastDot(name) == CHOOSE i \in Dots(name) : \A j \in Dots(name) : j <= i

\* Path::file_stem: the file name up to its last dot; the whole file name when it
\* has no dot or its only dot is the first character.
file_stem(path) ==
    IF file_name(path) = None THEN None
    ELSE IF Dots(path) = {} \/ LastDot(path) = 1 THEN Some(path)
    ELSE Some(SubSeq(path, 1, LastDot(path) - 1))

\* Option::and_then(f) for f = to_str, followed by unwrap_or("").
str_or_empty(opt) ==
    IF opt = None THEN <<>>
    ELSE IF to_str(opt[1]) = None THEN <<>> ELSE to_str(opt[1])[1]

\* tmp.push_str(".enc")
push_enc(tmp) == tmp \o <<".", "e", "n", "c">>

Ok(v) == [ok |-> TRUE, value |-> v]

\* get_crypt_file_name: always Ok(filename).
get_crypt_file_name(path, is_encrypt) ==
    IF is_encrypt THEN Ok(push_enc(str_or_empty(file_name(path))))
    ELSE Ok(str_or_empty(file_stem(path)))

\* _process_crypt_file is entered with an input path and a direction.
InitNames ==
    /\ fs = [p \in Paths |-> <<>>]
    /\ object = None
    /\ mpu = NoUpload
    /\ calls = <<>>
    /\ run \in {[NoRun EXCEPT !.op = "get_crypt_file_name", !.pc = "call",
                              !.path = x, !.is_encrypt = e] :
                    x \in PathNames, e \in BOOLEAN}
    /\ prev = NoRun
    /\ interfered = FALSE
    /\ client = None
    /\ tasks = [t \in Tasks |-> NoTask]

\* _process_crypt_file: let filename = get_crypt_file_name(&input_path, is_encrypt)
GetCryptFileName ==
    /\ run.op = "get_crypt_file_name"
    /\ run.pc = "call"
    /\ run' = [run EXCEPT !.pc = "named",
                          !.filename = Some(get_crypt_file_name(run.path, run.is_encrypt))]
    /\ UNCHANGED <<fs, object, mpu, calls, prev, interfered>>
    /\ UnchangedShared

\* _process_crypt_file in the other direction, on the file the encryption named.
GetCryptFileNameBack ==
    /\ run.op = "get_crypt_file_name"
    /\ run.pc = "named"
    /\ run.is_encrypt
    /\ run' = [run EXCEPT !.pc = "back",
                          !.back = Some(get_crypt_file_name(run.filename[1].value, FALSE))]
    /\ UNCHANGED <<fs, object, mpu, calls, prev, interfered>>
    /\ UnchangedShared

NextNames == GetCryptFileName \/ GetCryptFileNameBack

SpecNames == InitNames /\ [][NextNames]_vars

\* ------------------------------------------------- the object store

\* One remote call as the store saw it.
Call(name, id, n, tag, parts, ok) ==
    [call |-> name, upload_id |-> id, part_number |-> n, e_tag |-> tag,
     parts |-> parts, ok |-> ok]

\* UploadPart: the store keeps the body under its part number and ETag.
StorePart(m, n, body, tag) ==
    [m EXCEPT !.parts = Append(@, [part_number |-> n, body |-> body, e_tag |-> tag])]

HasPart(m, n) == \E j \in 1..Len(m.parts) : m.parts[j].part_number = n

\* The body last uploaded under part number n.
PartBody(m, n) ==
    LET js == {j \in 1..Len(m.parts) : m.parts[j].part_number = n}
        j  == CHOOSE k \in js : \A l \in js : l <= k
    IN  m.parts[j].body

\* CompleteMultipartUpload: every listed part must have been uploaded to this
\* upload; the object is their bodies in the listed order, and the upload and
\* its parts are gone.
CanComplete(m, id, parts) ==
    /\ m.state = "open"
    /\ m.id = id
    /\ \A i \in 1..Len(parts) : HasPart(m, parts[i].part_number)

Assemble(m, parts) ==
    Concat([i \in 1..Len(parts) |-> PartBody(m, parts[i].part_number)])

\* The upload id the store hands out.
NewUploadId == 1

\* ---------------------------------------------- client.rs: upload_file

PasswordOptions == {None} \cup {Some(pw) : pw \in Passwords}

\* Option<String>::unwrap_or_default on the ETag of a part: "" is 0.
unwrap_or_default(tag) == IF tag = None THEN 0 ELSE tag[1]

\* CompletedPart::builder().e_tag(..).part_number(part_number).build()
CompletedPart(tag, n) == [e_tag |-> unwrap_or_default(tag), part_number |-> n]

\* _upload_file (rot.rs): with a password the closure seals with setup_key(password).
StartUpload ==
    /\ run.op = "none"
    /\ \E pw \in PasswordOptions, named \in BOOLEAN :
          run' = [NoRun EXCEPT !.op = "upload_file", !.pc = "filename",
                               !.status = "running", !.password = pw,
                               !.key = IF pw = None THEN 0 ELSE setup_key(pw[1]),
                               !.named = named, !.input = "plain"]
    /\ UNCHANGED <<fs, prev, interfered>>
    /\ UnchangedRemote
    /\ UnchangedShared

IsUpload == run.op = "upload_file" /\ run.status = "running"

\* input_path.file_name(): None returns Err("failed to get filename").
UF_Filename ==
    /\ IsUpload
    /\ run.pc = "filename"
    /\ \/ /\ run.named
          /\ run' = [run EXCEPT !.pc = "open"]
       \/ /\ ~run.named
          /\ run' = [run EXCEPT !.pc = "returned", !.status = "err", !.cause = "filename"]
    /\ UNCHANGED <<fs, prev, interfered>>
    /\ UnchangedRemote
    /\ UnchangedShared

\* File::open(&input_path).await.unwrap_or_exit(..)
UF_Open ==
    /\ IsUpload
    /\ run.pc = "open"
    /\ \/ run' = [run EXCEPT !.pc = "begin"]
       \/ run' = unwrap_or_exit(run, "io")
    /\ UNCHANGED <<fs, prev, interfered>>
    /\ UnchangedRemote
    /\ UnchangedShared

\* create_multipart_upload().send().await.unwrap_or_exit(..), then
\* upload_id().unwrap_or_exit(..)
UF_CreateMultipart ==
    /\ IsUpload
    /\ run.pc = "begin"
    /\ \/ /\ mpu' = [state |-> "open", id |-> NewUploadId, parts |-> <<>>]
          /\ calls' = Append(calls, Call("create_multipart_upload", NewUploadId, 0, None, <<>>, TRUE))
          /\ run' = [run EXCEPT !.pc = "iter", !.upload_id = NewUploadId]
       \/ /\ mpu' = [state |-> "open", id |-> NewUploadId, parts |-> <<>>]
          /\ calls' = Append(calls, Call("create_multipart_upload", 0, 0, None, <<>>, TRUE))
          /\ run' = unwrap_or_exit(run, "upload_id")
       \/ /\ calls' = Append(calls, Call("create_multipart_upload", 0, 0, None, <<>>, FALSE))
          /\ run' = unwrap_or_exit(run, "store")
          /\ UNCHANGED mpu
    /\ UNCHANGED <<fs, object, prev, interfered>>
    /\ UnchangedShared

\* FileChunkIterator::new(file, CHUNK_SIZE).await.unwrap_or_exit(..)
UF_NewIter ==
    /\ IsUpload
    /\ run.pc = "iter"
    /\ \/ run' = [FileChunkIterator_new(run, run.input, CHUNK_SIZE) EXCEPT !.pc = "read"]
       \/ run' = unwrap_or_exit(run, "io")
    /\ UNCHANGED <<fs, prev, interfered>>
    /\ UnchangedRemote
    /\ UnchangedShared

\* iter.read_chunk().await.unwrap_or_exit(..): None ends the loop.
UF_ReadChunk ==
    /\ IsUpload
    /\ run.pc = "read"
    /\ \/ /\ run.file_size = 0
          /\ run' = [run EXCEPT !.pc = "complete"]
       \/ /\ run.file_size > 0
          /\ read_exact_ok(fs[run.input], run.pos, to_read(run))
          /\ run' = [read_chunk_some(run) EXCEPT !.pc = "operation"]
       \/ /\ run.file_size > 0
          /\ ~read_exact_ok(fs[run.input], run.pos, to_read(run))
          /\ run' = unwrap_or_exit(run, "eof")
       \/ /\ run.file_size > 0
          /\ run' = unwrap_or_exit(run, "io")
    /\ UNCHANGED <<fs, prev, interfered>>
    /\ UnchangedRemote
    /\ UnchangedShared

\* A transform that seals whether or not a password was given.
upload_transform_sealed(pw, key, buffer) == encrypt(buffer, key)

\* The per-chunk transform of upload_file: operation_fn(&buffer), or the buffer.
upload_transform(pw, key, buffer) == IF pw # None THEN encrypt(buffer, key) ELSE buffer

\* A part number that is not advanced.
next_part_number_stuck(n) == n

\* part_number += 1
next_part_number(n) == n + 1

UF_Operation ==
    /\ IsUpload
    /\ run.pc = "operation"
    /\ run' = [run EXCEPT !.pc = "upload_part",
                          !.write_buffer = upload_transform(run.password, run.key, run.buffer),
                          !.part_number = next_part_number(run.part_number)]
    /\ UNCHANGED <<fs, prev, interfered>>
    /\ UnchangedRemote
    /\ UnchangedShared

\* A part list that keeps only the part pushed last.
push_part_replace(parts, tag, n) == <<CompletedPart(tag, n)>>

\* upload_parts.push(completer_part)
push_part(parts, tag, n) == Append(parts, CompletedPart(tag, n))

\* upload_part()...send().await.unwrap_or_exit(..), then the CompletedPart is pushed.
\* The store answers with an ETag of its own choosing, or with none.
UF_UploadPart ==
    /\ IsUpload
    /\ run.pc = "upload_part"
    /\ \/ \E tag \in {None, Some(Len(calls) + 1)} :
             /\ mpu.state = "open"
             /\ mpu.id = run.upload_id
             /\ mpu' = StorePart(mpu, run.part_number, run.write_buffer, tag)
             /\ calls' = Append(calls, Call("upload_part", run.upload_id, run.part_number,
                                            tag, <<>>, TRUE))
             /\ run' = [run EXCEPT !.pc = "read",
                                   !.upload_parts = push_part(@, tag, run.part_number),
                                   !.chunks_out = Append(@, Len(run.write_buffer))]
       \/ /\ calls' = Append(calls, Call("upload_part", run.upload_id, run.part_number,
                                         None, <<>>, FALSE))
          /\ run' = unwrap_or_exit(run, "store")
          /\ UNCHANGED mpu
    /\ UNCHANGED <<fs, object, prev, interfered>>
    /\ UnchangedShared

\* complete_multipart_upload()...send().await.unwrap_or_exit(..); Ok(response).
UF_Complete ==
    /\ IsUpload
    /\ run.pc = "complete"
    /\ \/ /\ CanComplete(mpu, run.upload_id, run.upload_parts)
          /\ object' = Some(Assemble(mpu, run.upload_parts))
          /\ mpu' = [mpu EXCEPT !.state = "completed", !.parts = <<>>]
          /\ calls' = Append(calls, Call("complete_multipart_upload", run.upload_id, 0,
                                         None, run.upload_parts, TRUE))
          /\ run' = [run EXCEPT !.pc = "returned", !.status = "ok"]
       \/ /\ calls' = Append(calls, Call("complete_multipart_upload", run.upload_id, 0,
                                         None, run.upload_parts, FALSE))
          /\ run' = unwrap_or_exit(run, "store")
          /\ UNCHANGED <<object, mpu>>
    /\ UNCHANGED <<fs, prev, interfered>>
    /\ UnchangedShared

\* _upload_file (rot.rs): .expect("failed to upload file") on the result, then the
\* success line.
CallerUpload ==
    /\ run.op = "upload_file"
    /\ \/ /\ run.status = "ok"
          /\ ~run.reported
          /\ run' = [run EXCEPT !.reported = TRUE]
       \/ /\ run.status = "err"
          /\ run' = unwrap_panic(run, run.cause)
    /\ UNCHANGED <<fs, prev, interfered>>
    /\ UnchangedRemote
    /\ UnchangedShared

\* -------------------------------------------- client.rs: download_file

\* What get_object can answer for a stored body: the body stream, the number of
\* bytes the connection delivers before it ends, and content_length().
GoodResponse(body) ==
    [body |-> body, avail |-> Len(body), content_length |-> Some(Len(body))]

BadResponses(body) ==
    {[body |-> body, avail |-> Len(body), content_length |-> c] :
        c \in {None, Some(0 - 1)}}
    \cup {[body |-> body, avail |-> k, content_length |-> Some(Len(body))] :
            k \in 0..(Len(body) - 1)}

\* _download_file (rot.rs): with a password the closure opens with
\* setup_key(password) and strips the tag.
StartDownload ==
    /\ run.op = "upload_file"
    /\ Settled(run)
    /\ prev.op = "none"
    /\ \E pw \in PasswordOptions :
          run' = [NoRun EXCEPT !.op = "download_file", !.pc = "get_object",
                               !.status = "running", !.password = pw,
                               !.key = IF pw = None THEN 0 ELSE setup_key(pw[1]),
                               !.output = "dl"]
    /\ prev' = Summary(run)
    /\ calls' = <<>>
    /\ UNCHANGED <<fs, object, mpu, interfered>>
    /\ UnchangedShared

IsDownload == run.op = "download_file" /\ run.status = "running"

got_object(r, resp) ==
    [r EXCEPT !.pc = "create", !.body = resp.body, !.avail = resp.avail,
              !.content_length = resp.content_length]

\* get_object()...send().await.unwrap()
DF_GetObject ==
    /\ IsDownload
    /\ run.pc = "get_object"
    /\ \/ /\ object # None
          /\ run' = got_object(run, GoodResponse(object[1]))
          /\ calls' = Append(calls, Call("get_object", 0, 0, None, <<>>, TRUE))
          /\ UNCHANGED interfered
       \/ /\ object # None
          /\ ~interfered
          /\ \E resp \in BadResponses(object[1]) : run' = got_object(run, resp)
          /\ calls' = Append(calls, Call("get_object", 0, 0, None, <<>>, TRUE))
          /\ interfered' = TRUE
       \/ /\ run' = unwrap_panic(run, "store")
          /\ calls' = Append(calls, Call("get_object", 0, 0, None, <<>>, FALSE))
          /\ UNCHANGED interfered
    /\ UNCHANGED <<fs, object, mpu, prev>>
    /\ UnchangedShared

\* create_file(path).await.unwrap_or_exit(..): created or truncated.
DF_CreateFile ==
    /\ IsDownload
    /\ run.pc = "create"
    /\ \/ /\ fs' = [fs EXCEPT ![run.output] = <<>>]
          /\ run' = [run EXCEPT !.pc = "content_length"]
       \/ /\ run' = unwrap_or_exit(run, "io")
          /\ UNCHANGED fs
    /\ UNCHANGED <<prev, interfered>>
    /\ UnchangedRemote
    /\ UnchangedShared

\* resp.content_length().unwrap_or_exit(..), then try_into::<usize>().unwrap_or_exit(..)
DF_ContentLength ==
    /\ IsDownload
    /\ run.pc = "content_length"
    /\ \/ /\ run.content_length = None
          /\ run' = unwrap_or_exit(run, "no length")
       \/ /\ run.content_length # None
          /\ run.content_length[1] < 0
          /\ run' = unwrap_or_exit(run, "bad length")
       \/ /\ run.content_length # None
          /\ run.content_length[1] >= 0
          /\ run' = [run EXCEPT !.pc = "loop", !.content_len = run.content_length[1]]
    /\ UNCHANGED <<fs, prev, interfered>>
    /\ UnchangedRemote
    /\ UnchangedShared

\* A loop that takes the first branch while a whole block remains.
full_block_ge(content_len) == content_len >= CHUNK_SIZE_WITH_TAG

\* The branch of the download loop: a full block while more than one is left.
full_block(content_len) == content_len > CHUNK_SIZE_WITH_TAG

\* A last block cut to the plaintext chunk size.
block_size_short(content_len) ==
    IF full_block(content_len) THEN CHUNK_SIZE_WITH_TAG ELSE Min(content_len, CHUNK_SIZE)

\* The size of the buffer the loop reads into.
block_size(content_len) ==
    IF full_block(content_len) THEN CHUNK_SIZE_WITH_TAG ELSE content_len

\* byte_stream_async_reader.read_exact(&mut buffer).await.unwrap_or_exit(..)
DF_Read ==
    /\ IsDownload
    /\ run.pc = "loop"
    /\ LET n == block_size(run.content_len)
       IN  \/ /\ run.pos + n <= run.avail
              /\ run' = [run EXCEPT !.pc = "operation",
                                    !.buffer = SubSeq(run.body, run.pos + 1, run.pos + n),
                                    !.pos = run.pos + n,
                                    !.chunks_in = Append(@, n)]
           \/ /\ run.pos + n > run.avail
              /\ run' = unwrap_or_exit(run, "eof")
    /\ UNCHANGED <<fs, prev, interfered>>
    /\ UnchangedRemote
    /\ UnchangedShared

\* operation_fn(&buffer), or the buffer.
DF_Operation ==
    /\ IsDownload
    /\ run.pc = "operation"
    /\ \/ /\ run.password = None
          /\ run' = [run EXCEPT !.pc = "write", !.write_buffer = run.buffer]
       \/ /\ run.password # None
          /\ decrypt(run.buffer, run.key).ok
          /\ run' = [run EXCEPT !.pc = "opened",
                                !.result = decrypt(run.buffer, run.key).in_out]
       \/ /\ run.password # None
          /\ ~decrypt(run.buffer, run.key).ok
          /\ run' = unwrap_or_exit(run, "auth")
    /\ UNCHANGED <<fs, prev, interfered>>
    /\ UnchangedRemote
    /\ UnchangedShared

\* result[..result.len() - TAG_LEN].to_vec() in the closure of _download_file
DF_StripTag ==
    /\ IsDownload
    /\ run.pc = "opened"
    /\ run' = [run EXCEPT !.pc = "write", !.write_buffer = StripTag(run.result)]
    /\ UNCHANGED <<fs, prev, interfered>>
    /\ UnchangedRemote
    /\ UnchangedShared

\* content_len_usize -= CHUNK_SIZE_WITH_TAG
after_full_block(content_len) == content_len - CHUNK_SIZE_WITH_TAG

\* file.write_all(&write_buffer).await.unwrap_or_exit(..); continue after a full
\* block, break after the last one.
DF_Write ==
    /\ IsDownload
    /\ run.pc = "write"
    /\ \/ /\ fs' = [fs EXCEPT ![run.output] = @ \o run.write_buffer]
          /\ run' = [run EXCEPT
                        !.pc = IF full_block(run.content_len) THEN "loop" ELSE "flush",
                        !.content_len = IF full_block(run.content_len)
                                        THEN after_full_block(run.content_len)
                                        ELSE run.content_len,
                        !.unflushed = TRUE,
                        !.chunks_out = Append(@, Len(run.write_buffer))]
       \/ /\ run' = unwrap_or_exit(run, "io")
          /\ UNCHANGED fs
    /\ UNCHANGED <<prev, interfered>>
    /\ UnchangedRemote
    /\ UnchangedShared

\* file.flush().await.unwrap_or_exit(..); download_file returns.
DF_Flush ==
    /\ IsDownload
    /\ run.pc = "flush"
    /\ \/ run' = [run EXCEPT !.pc = "returned", !.status = "ok", !.unflushed = FALSE,
                             !.flushes = @ + 1]
       \/ run' = unwrap_or_exit(run, "io")
    /\ UNCHANGED <<fs, prev, interfered>>
    /\ UnchangedRemote
    /\ UnchangedShared

\* _download_file (rot.rs): the success line after download_file returned.
ReportDownload ==
    /\ run.op = "download_file"
    /\ run.status = "ok"
    /\ ~run.reported
    /\ run' = [run EXCEPT !.reported = TRUE]
    /\ UNCHANGED <<fs, prev, interfered>>
    /\ UnchangedRemote
    /\ UnchangedShared

\* ------------------------------------------------------- the environment

\* One byte of a stored ciphertext changed: a data byte to the next value, a tag
\* byte to a data byte.
FlipByte(s, i) ==
    [s EXCEPT ![i] = IF IsDataByte(@) THEN <<(@[1] + 1) % ByteMod>> ELSE <<0>>]

\* One byte of a stored ciphertext lost: every later chunk boundary moves.
DropByte(s, i) == SubSeq(s, 1, i - 1) \o SubSeq(s, i + 1, Len(s))

\* The ciphertext file changes between encrypt_file and decrypt_file.
TamperFile ==
    /\ run.op = "encrypt_file"
    /\ run.status = "ok"
    /\ run.reported
    /\ ~interfered
    /\ \E i \in 1..Len(fs["enc"]) :
          \/ fs' = [fs EXCEPT !["enc"] = FlipByte(@, i)]
          \/ fs' = [fs EXCEPT !["enc"] = DropByte(@, i)]
    /\ interfered' = TRUE
    /\ UNCHANGED <<run, prev>>
    /\ UnchangedRemote
    /\ UnchangedShared

\* The input file of the running command is cut short after the iterator
\* captured its size.
TruncateInput ==
    /\ run.op \in {"encrypt_file", "decrypt_file", "upload_file"}
    /\ run.status = "running"
    /\ run.pc = "read"
    /\ ~interfered
    /\ \E k \in 0..(Len(fs[run.input]) - 1) :
          fs' = [fs EXCEPT ![run.input] = SubSeq(@, 1, k)]
    /\ interfered' = TRUE
    /\ UNCHANGED <<run, prev>>
    /\ UnchangedRemote
    /\ UnchangedShared

\* The stored object changes between upload_file and download_file.
TamperObject ==
    /\ run.op = "upload_file"
    /\ run.status = "ok"
    /\ run.reported
    /\ ~interfered
    /\ object # None
    /\ \E i \in 1..Len(object[1]) :
          \/ object' = Some(FlipByte(object[1], i))
          \/ object' = Some(DropByte(object[1], i))
    /\ interfered' = TRUE
    /\ UNCHANGED <<fs, mpu, calls, run, prev>>
    /\ UnchangedShared

Next ==
    \/ StartEncryptFile
    \/ StartDecryptFile
    \/ PF_OpenInput
    \/ PF_CreateOutput
    \/ PF_ReadChunk
    \/ PF_Operation
    \/ PF_StripTag
    \/ PF_Write
    \/ ReportCodec
    \/ TamperFile
    \/ StartUpload
    \/ UF_Filename
    \/ UF_Open
    \/ UF_CreateMultipart
    \/ UF_NewIter
    \/ UF_ReadChunk
    \/ UF_Operation
    \/ UF_UploadPart
    \/ UF_Complete
    \/ CallerUpload
    \/ StartDownload
    \/ DF_GetObject
    \/ DF_CreateFile
    \/ DF_ContentLength
    \/ DF_Read
    \/ DF_Operation
    \/ DF_StripTag
    \/ DF_Write
    \/ DF_Flush
    \/ ReportDownload
    \/ TamperObject
    \/ TruncateInput

Spec == Init /\ [][Next]_vars

\* ------------------------------ the commands when every call returns

\* A step of the running command: a file or remote call returned, or the
\* caller printed its line.
CommandStep ==
    \/ PF_OpenInput
    \/ PF_CreateOutput
    \/ PF_ReadChunk
    \/ PF_Operation
    \/ PF_StripTag
    \/ PF_Write
    \/ ReportCodec
    \/ UF_Filename
    \/ UF_Open
    \/ UF_CreateMultipart
    \/ UF_NewIter
    \/ UF_ReadChunk
    \/ UF_Operation
    \/ UF_UploadPart
    \/ UF_Complete
    \/ CallerUpload
    \/ DF_GetObject
    \/ DF_CreateFile
    \/ DF_ContentLength
    \/ DF_Read
    \/ DF_Operation
    \/ DF_StripTag
    \/ DF_Write
    \/ DF_Flush
    \/ ReportDownload

\* The commands of a session that nothing but its own commands touches.
NextLive ==
    \/ StartEncryptFile
    \/ StartDecryptFile
    \/ StartUpload
    \/ StartDownload
    \/ CommandStep

\* The sessions in which no await of the running command blocks for ever:
\* tokio resumes the task whenever the awaited call has returned.
SpecLive == Init /\ [][NextLive]_vars /\ WF_vars(CommandStep)

\* ----------------- decrypt_file and download_file given the same byte stream

\* encrypt_file's output for a file: its chunks sealed one after the other.
SealedFile(file, pw) ==
    Concat([k \in 1..DivCeil(Len(file), CHUNK_SIZE) |->
                encrypt(ChunkOf(file, k, CHUNK_SIZE), setup_key(pw))])

Prefixes(stream) == {SubSeq(stream, 1, n) : n \in 0..Len(stream)}

\* The byte streams given to both commands: sealed files, sealed files cut short,
\* and files that were never sealed.
Streams ==
    Files \cup UNION {Prefixes(SealedFile(f, pw)) : f \in Files, pw \in Passwords}

\* The same stream is the content of a local file and the body of a remote object.
InitSame ==
    /\ \E stream \in Streams :
          /\ fs = [p \in Paths |-> IF p = "enc" THEN stream ELSE <<>>]
          /\ object = Some(stream)
    /\ mpu = NoUpload
    /\ calls = <<>>
    /\ run = NoRun
    /\ prev = NoRun
    /\ interfered = FALSE
    /\ client = None
    /\ tasks = [t \in Tasks |-> NoTask]

\* rot decrypt on the local file.
StartDecryptOfStream ==
    /\ run.op = "none"
    /\ \E pw \in Passwords : run' = StartCodec("decrypt_file", "enc", "dec", pw)
    /\ UNCHANGED <<fs, prev, interfered>>
    /\ UnchangedRemote
    /\ UnchangedShared

\* rot download of the object, with the password the local file was decrypted with.
StartDownloadOfStream ==
    /\ run.op = "decrypt_file"
    /\ Settled(run)
    /\ prev.op = "none"
    /\ run' = [NoRun EXCEPT !.op = "download_file", !.pc = "get_object",
                            !.status = "running", !.password = run.password,
                            !.key = setup_key(run.password[1]),
                            !.output = "dl"]
    /\ prev' = Summary(run)
    /\ UNCHANGED <<fs, object, mpu, calls, interfered>>
    /\ UnchangedShared

NextSame ==
    \/ StartDecryptOfStream
    \/ PF_OpenInput
    \/ PF_CreateOutput
    \/ PF_ReadChunk
    \/ PF_Operation
    \/ PF_StripTag
    \/ PF_Write
    \/ ReportCodec
    \/ StartDownloadOfStream
    \/ DF_GetObject
    \/ DF_CreateFile
    \/ DF_ContentLength
    \/ DF_Read
    \/ DF_Operation
    \/ DF_StripTag
    \/ DF_Write
    \/ DF_Flush
    \/ ReportDownload

SpecSame == InitSame /\ [][NextSame]_vars

\* ------------- decrypt_file and download_file given rearranged sealed chunks

\* The files whose sealed chunks are rearranged: one full chunk and a rest.
SpliceFiles == {f \in Files : Len(f) = CHUNK_SIZE + 1}

\* A second file sealed under the same password, of one full chunk, which is
\* mixed in.
SpliceDonor == [i \in 1..CHUNK_SIZE |-> <<ByteMod - 1>>]

\* The chunks of a file as its reader yields them.
PlainChunksOf(file) ==
    [k \in 1..DivCeil(Len(file), CHUNK_SIZE) |-> ChunkOf(file, k, CHUNK_SIZE)]

\* The chunks of two files, and what encrypt makes of each.
PlainPool(file) == PlainChunksOf(file) \o PlainChunksOf(SpliceDonor)

SealedPool(file, pw) ==
    [k \in 1..Len(PlainPool(file)) |-> encrypt(PlainPool(file)[k], setup_key(pw))]

\* The rearrangements of the chunks of a pool: chunks picked in any order, any
\* number of times or not at all, a short chunk only in the last place.
Arrangements(file) ==
    {a \in UNION {[1..m -> 1..Len(PlainPool(file))] : m \in 0..MaxSplice} :
        \A i \in 1..(Len(a) - 1) : Len(PlainPool(file)[a[i]]) = CHUNK_SIZE}

Spliced(chunks, a) == Concat([i \in 1..Len(a) |-> chunks[a[i]]])

\* The local file and the object hold the same rearranged stream of chunks that
\* were sealed under one password; the file the chunks come from is kept.
InitSplice ==
    /\ \E f \in SpliceFiles, pw \in Passwords :
          \E a \in Arrangements(f) :
              /\ fs = [p \in Paths |-> IF p = "plain" THEN f
                                       ELSE IF p = "enc" THEN Spliced(SealedPool(f, pw), a)
                                       ELSE <<>>]
              /\ object = Some(Spliced(SealedPool(f, pw), a))
    /\ mpu = NoUpload
    /\ calls = <<>>
    /\ run = NoRun
    /\ prev = NoRun
    /\ interfered = FALSE
    /\ client = None
    /\ tasks = [t \in Tasks |-> NoTask]

SpecSplice == InitSplice /\ [][NextSame]_vars

\* ------------------ rot.rs / rcrypt.rs: _process_crypt_file and its paths

\* The directories of a path: the current directory and another one.
Dirs == {"cwd", "elsewhere"}

\* The names of regular files: valid Unicode, and a final component.
RegularNames == {x \in PathNames : file_name(x) # None /\ to_str(x) # None}

\* The contents of the input of a paths session: the empty file and the files
\* of one full chunk and a rest.
PathFiles == {f \in Files : Len(f) \in {0, CHUNK_SIZE + 1}}

\* ensure_absolute_path(input_path): the directory and the name of the file.
ensure_absolute_path(dir, name) == <<dir, name>>

\* The output paths given on the command line: none, the input path itself, or
\* a file of the current directory.
OutputPaths(dir, name) ==
    {None, Some(ensure_absolute_path(dir, name)), Some(ensure_absolute_path("cwd", <<"a">>))}

\* let output_path = if let Some(value) = rot_crypt.output_path { .. } else
\* { current_dir + filename }
output_path_of(r) ==
    IF r.output_path # None THEN r.output_path[1]
    ELSE ensure_absolute_path("cwd", r.filename[1].value)

\* The file an output path names: the input file when the paths are equal, no
\* file when its name is that of a directory, another file otherwise.
OutputFile(r, input, other) ==
    IF output_path_of(r) = ensure_absolute_path(r.dir, r.path) THEN input
    ELSE IF file_name(output_path_of(r)[2]) = None THEN "dir"
    ELSE other

\* _process_crypt_file is entered with an existing input file, a direction and
\* an optional output path; the input of a decryption is a sealed file.
InitPaths ==
    /\ \E f \in PathFiles :
          fs = [p \in Paths |-> IF p = "plain" THEN f
                                ELSE IF p = "enc" THEN SealedFile(f, 1) ELSE <<>>]
    /\ object = None
    /\ mpu = NoUpload
    /\ calls = <<>>
    /\ \E x \in RegularNames, e \in BOOLEAN, d \in Dirs :
          \E o \in OutputPaths(d, x) :
              run = [NoRun EXCEPT !.op = "get_crypt_file_name", !.pc = "call",
                                  !.path = x, !.is_encrypt = e, !.dir = d,
                                  !.output_path = o]
    /\ prev = NoRun
    /\ interfered = FALSE
    /\ client = None
    /\ tasks = [t \in Tasks |-> NoTask]

\* _process_crypt_file: the output path, then encrypt_file or decrypt_file on
\* the two paths.
ProcessCryptFile ==
    /\ run.op = "get_crypt_file_name"
    /\ run.pc = "named"
    /\ LET r == run
           op == IF r.is_encrypt THEN "encrypt_file" ELSE "decrypt_file"
           input == IF r.is_encrypt THEN "plain" ELSE "enc"
           other == IF r.is_encrypt THEN "enc" ELSE "dec"
       IN  run' = [StartCodec(op, input, OutputFile(r, input, other), 1)
                     EXCEPT !.path = r.path, !.dir = r.dir, !.is_encrypt = r.is_encrypt,
                            !.filename = r.filename, !.output_path = r.output_path]
    /\ UNCHANGED <<fs, object, mpu, calls, prev, interfered>>
    /\ UnchangedShared

NextPaths ==
    \/ GetCryptFileName
    \/ ProcessCryptFile
    \/ PF_OpenInput
    \/ PF_CreateOutput
    \/ PF_ReadChunk
    \/ PF_Operation
    \/ PF_StripTag
    \/ PF_Write
    \/ ReportCodec

SpecPaths == InitPaths /\ [][NextPaths]_vars

\* ------------------------------------------ client.rs: load_from_env

\* Config: five strings, each empty or not.
ConfigFields == {"access_key_id", "secret_access_key", "region", "endpoint_url", "bucket"}

\* Config::new_empty()
new_empty == [f \in ConfigFields |-> ""]

\* The configurations a file can hold: the empty one, a complete one, and two
\* with one field left empty.
Configs ==
    {new_empty, [f \in ConfigFields |-> "k"],
     [f \in ConfigFields |-> IF f = "bucket" THEN "" ELSE "k"],
     [f \in ConfigFields |-> IF f = "access_key_id" THEN "" ELSE "k"]}

\* Config::is_valid: no field is empty.
is_valid(config) ==
    ~(\/ config.access_key_id = ""
      \/ config.secret_access_key = ""
      \/ config.region = ""
      \/ config.endpoint_url = ""
      \/ config.bucket = "")

\* The text of the configuration file, in tokens: a JSON object with the five
\* fields, white space, and any other text.
JsonObject(config) == [kind |-> "object", value |-> config]

WhiteSpace == [kind |-> "space", value |-> new_empty]

OtherText == [kind |-> "other", value |-> new_empty]

ConfigTokens == {JsonObject(config) : config \in Configs} \cup {WhiteSpace, OtherText}

ConfigTexts == UNION {[1..n -> ConfigTokens] : n \in 0..MaxConfigLen}

\* serde_json::to_string(&config): the object and nothing else.
to_string(config) == <<JsonObject(config)>>

IsSpace(token) == token.kind = "space"

\* The tokens of a text that are not white space.
Significant(text) == SelectSeq(text, LAMBDA token : ~IsSpace(token))

Err == [ok |-> FALSE, value |-> new_empty]

\* serde_json::from_str::<Config>(&text): one object with the five fields,
\* white space allowed around it, nothing else.
from_str(text) ==
    IF Len(Significant(text)) = 1 /\ Significant(text)[1].kind = "object"
    THEN Ok(Significant(text)[1].value)
    ELSE Err

\* file.write_all(bytes) on a file opened without truncate or append: the
\* bytes replace what stands at the cursor and extend the file beyond its end.
write_at(file, cursor, bytes) ==
    SubSeq(file, 1, cursor) \o bytes \o SubSeq(file, cursor + Len(bytes) + 1, Len(file))

\* The configuration file ~/.config/rot/rot.json.
ConfigPath == "rot.json"

\* Before the first run the file holds any text; OpenOptions creates it empty
\* when it does not exist.
InitConfig ==
    /\ \E text \in ConfigTexts :
          fs = [p \in Paths \cup {ConfigPath} |-> IF p = ConfigPath THEN text ELSE <<>>]
    /\ object = None
    /\ mpu = NoUpload
    /\ calls = <<>>
    /\ run = NoRun
    /\ prev = NoRun
    /\ interfered = FALSE
    /\ client = None
    /\ tasks = [t \in Tasks |-> NoTask]

IsLoad == run.op = "load_from_env" /\ run.status = "running"

UnchangedButConfig == UNCHANGED <<object, mpu, prev, interfered>>

\* main calls load_from_env once per process: home_dir, the directory, and the
\* file opened for reading and writing.
LE_Open ==
    /\ run.op = "none" \/ (run.op = "load_from_env" /\ Ended(run))
    /\ Len(calls) < MaxLoads
    /\ \/ run' = [NoRun EXCEPT !.op = "load_from_env", !.pc = "read", !.status = "running"]
       \/ run' = [NoRun EXCEPT !.op = "load_from_env", !.pc = "returned", !.status = "ok",
                               !.cause = "no_home"]
    /\ calls' = Append(calls, Call("load_from_env", 0, 0, None, <<>>, TRUE))
    /\ UNCHANGED fs
    /\ UnchangedButConfig
    /\ UnchangedShared

\* file.read_to_string(&mut text): the whole file, the cursor left at its end.
LE_Read ==
    /\ IsLoad
    /\ run.pc = "read"
    /\ run' = [run EXCEPT !.pc = "parse", !.text = fs[ConfigPath],
                          !.pos = Len(fs[ConfigPath])]
    /\ UNCHANGED <<fs, calls>>
    /\ UnchangedButConfig
    /\ UnchangedShared

\* if text.is_empty() { write the empty configuration; return None }, else
\* serde_json::from_str; on Err the empty configuration is written.
LE_Parse ==
    /\ IsLoad
    /\ run.pc = "parse"
    /\ \/ /\ run.text = <<>>
          /\ fs' = [fs EXCEPT ![ConfigPath] = write_at(@, run.pos, to_string(new_empty))]
          /\ run' = [run EXCEPT !.pc = "returned", !.status = "ok", !.returned = None]
       \/ /\ run.text # <<>>
          /\ from_str(run.text).ok
          /\ run' = [run EXCEPT !.pc = "valid", !.config = Some(from_str(run.text).value)]
          /\ UNCHANGED fs
       \/ /\ run.text # <<>>
          /\ ~from_str(run.text).ok
          /\ fs' = [fs EXCEPT ![ConfigPath] = write_at(@, run.pos, to_string(new_empty))]
          /\ run' = [run EXCEPT !.pc = "valid", !.config = None]
    /\ UNCHANGED calls
    /\ UnchangedButConfig
    /\ UnchangedShared

\* if let Some(value) = config { if value.is_valid() { return Some(Self::new(..)) } }
\* None
LE_Return ==
    /\ IsLoad
    /\ run.pc = "valid"
    /\ run' = [run EXCEPT !.pc = "returned", !.status = "ok",
                          !.returned = IF run.config # None /\ is_valid(run.config[1])
                                       THEN run.config ELSE None]
    /\ UNCHANGED <<fs, calls>>
    /\ UnchangedButConfig
    /\ UnchangedShared

NextConfig == LE_Open \/ LE_Read \/ LE_Parse \/ LE_Return

SpecConfig == InitConfig /\ [][NextConfig]_vars

\* --------------------------------------------------------- parser.rs

\* The arguments of a command line, each a string of characters.
ArgTokens ==
    {<<>>, <<"-">>, <<"-", "-">>, <<"-", "c">>, <<"-", "-", "r">>, <<"p">>, <<"q">>,
     <<"k", "=", "v">>, <<"k", "=", "w">>, <<"=", "v">>, <<"k", "=">>,
     <<"-", "k", "=", "v">>}

\* The program name, args[0].
ProgramName == <<"a">>

ArgLists == {<<ProgramName>> \o a : a \in UNION {[1..n -> ArgTokens] : n \in 0..MaxArgs}}

starts_with(text, chr) == Len(text) >= 1 /\ text[1] = chr

ends_with(text, chr) == Len(text) >= 1 /\ text[Len(text)] = chr

contains(text, chr) == \E i \in 1..Len(text) : text[i] = chr

\* SkipChr::get_skip_chr: the number of leading dashes to skip, -1 when the
\* text is no dash token.
get_skip_chr(text) ==
    IF ~starts_with(text, "-") THEN 0 - 1
    ELSE IF Len(text) < 2 THEN 0 - 1
    ELSE IF starts_with(text, "-") /\ text[2] = "-"
         THEN IF Len(text) < 3 THEN 0 - 1 ELSE 2
    ELSE 1

\* arg[skip_chr as usize..]
skip(arg, skip_chr) == SubSeq(arg, skip_chr + 1, Len(arg))

\* The position of the first '=' of a text that contains one.
FirstEq(text) == CHOOSE i \in 1..Len(text) : text[i] = "=" /\ \A j \in 1..(i - 1) : text[j] # "="

\* arg.splitn(2, '='): the text before the first '=' and the text after it.
splitn(arg) == <<SubSeq(arg, 1, FirstEq(arg) - 1), SubSeq(arg, FirstEq(arg) + 1, Len(arg))>>

\* HashMap::new() and HashMap::insert: the later value of a key replaces the
\* earlier one.
NoOptions == [k \in {} |-> <<>>]

insert(map, key, value) ==
    [k \in DOMAIN map \cup {key} |-> IF k = key THEN value ELSE map[k]]

\* from_strings is entered with the arguments of the process; iter skips the
\* first.
InitParser ==
    /\ fs = [p \in Paths |-> <<>>]
    /\ object = None
    /\ mpu = NoUpload
    /\ calls = <<>>
    /\ \E a \in ArgLists :
          run = [NoRun EXCEPT !.op = "from_strings", !.pc = "loop", !.status = "running",
                              !.args = a, !.iter = Tail(a), !.optional = NoOptions]
    /\ prev = NoRun
    /\ interfered = FALSE
    /\ client = None
    /\ tasks = [t \in Tasks |-> NoTask]

IsParse == run.op = "from_strings" /\ run.status = "running"

\* buffer.take().or_else(|| iter.next()): the record after the take, and the
\* argument taken, None when there is none.
take(r) ==
    IF r.buffer # None THEN [r |-> [r EXCEPT !.buffer = None], arg |-> r.buffer]
    ELSE IF r.iter # <<>> THEN [r |-> [r EXCEPT !.iter = Tail(r.iter)], arg |-> Some(Head(r.iter))]
    ELSE [r |-> r, arg |-> None]

\* The branch of a dash token: dropped when get_skip_chr is -1; with a next
\* argument a flag or an option; nothing recorded without one.
dash_token(r, arg) ==
    LET skip_chr == get_skip_chr(arg)
        next == take(r)
    IN  IF skip_chr = 0 - 1 THEN r
        ELSE IF next.arg = None THEN next.r
        ELSE IF get_skip_chr(next.arg[1]) > 0
             THEN [next.r EXCEPT !.buffer = next.arg,
                                 !.flags = Append(@, skip(arg, skip_chr))]
        ELSE [next.r EXCEPT !.optional = insert(@, skip(arg, skip_chr), next.arg[1])]

\* One iteration of the while loop on the argument taken.
classify(r, arg) ==
    IF starts_with(arg, "-") THEN dash_token(r, arg)
    ELSE IF contains(arg, "=") /\ ~(starts_with(arg, "=") \/ ends_with(arg, "="))
         THEN [r EXCEPT !.optional = insert(@, splitn(arg)[1], splitn(arg)[2])]
    ELSE IF r.main_command = None THEN [r EXCEPT !.main_command = Some(arg)]
    ELSE [r EXCEPT !.positional = Append(@, arg)]

\* while let Some(arg) = buffer.take().or_else(..) { .. }
FS_Loop ==
    /\ IsParse
    /\ run.pc = "loop"
    /\ take(run).arg # None
    /\ run' = classify(take(run).r, take(run).arg[1])
    /\ UNCHANGED <<fs, object, mpu, calls, prev, interfered>>
    /\ UnchangedShared

\* Arguments { flags, optional, main_command, positional }
FS_Return ==
    /\ IsParse
    /\ run.pc = "loop"
    /\ take(run).arg = None
    /\ run' = [run EXCEPT !.pc = "returned", !.status = "ok"]
    /\ UNCHANGED <<fs, object, mpu, calls, prev, interfered>>
    /\ UnchangedShared

NextParser == FS_Loop \/ FS_Return

SpecParser == InitParser /\ [][NextParser]_vars

\* ------------------------------------- utils.rs: sanitize_prefix_path

\* The characters of a path: the slash, the backslash, a letter, and "W" for a
\* character of two bytes.
PathChars == {"/", "\\", "a", "W"}

\* The bytes of a character in UTF-8.
len_utf8(chr) == IF chr = "W" THEN 2 ELSE 1

PathStrings == UNION {[1..n -> PathChars] : n \in 0..MaxPathLen}

\* The characters the loop counts.
slash_only(chr) == chr = "/"

is_prefix_chr(chr) == chr = "/" \/ chr = "\\"

\* str.len(): the bytes of a string.
RECURSIVE ByteLen(_)
ByteLen(str) == IF str = <<>> THEN 0 ELSE len_utf8(Head(str)) + ByteLen(Tail(str))

\* &path[index..]: the characters from byte index on; the slice panics when
\* the index is inside a character or beyond the end.
byte_slice(path, index) ==
    LET cuts == {k \in 0..Len(path) : ByteLen(SubSeq(path, 1, k)) = index}
    IN  IF cuts = {} THEN [ok |-> FALSE, value |-> <<>>]
        ELSE Ok(SubSeq(path, (CHOOSE k \in cuts : TRUE) + 1, Len(path)))

\* sanitize_prefix_path is called with a path.
InitSanitize ==
    /\ fs = [p \in Paths |-> <<>>]
    /\ object = None
    /\ mpu = NoUpload
    /\ calls = <<>>
    /\ \E path \in PathStrings :
          run = [NoRun EXCEPT !.op = "sanitize_prefix_path", !.pc = "is_empty",
                              !.status = "running", !.args = path, !.path = path]
    /\ prev = NoRun
    /\ interfered = FALSE
    /\ client = None
    /\ tasks = [t \in Tasks |-> NoTask]

IsSanitize == run.op = "sanitize_prefix_path" /\ run.status = "running"

\* if path.is_empty() { return path; }  let mut chars = path.chars(); let mut index = 0;
SP_IsEmpty ==
    /\ IsSanitize
    /\ run.pc = "is_empty"
    /\ \/ /\ run.path = <<>>
          /\ run' = [run EXCEPT !.pc = "returned", !.status = "ok", !.returned = Some(run.path)]
       \/ /\ run.path # <<>>
          /\ run' = [run EXCEPT !.pc = "loop", !.chars = run.path, !.index = 0]
    /\ UNCHANGED <<fs, object, mpu, calls, prev, interfered>>
    /\ UnchangedShared

\* while let Some(chr) = chars.next() { if chr == '/' || chr == '\\' { index += 1 }
\* else { break } }
SP_Loop ==
    /\ IsSanitize
    /\ run.pc = "loop"
    /\ \/ /\ run.chars # <<>>
          /\ is_prefix_chr(Head(run.chars))
          /\ run' = [run EXCEPT !.chars = Tail(@), !.index = @ + 1]
       \/ /\ run.chars # <<>>
          /\ ~is_prefix_chr(Head(run.chars))
          /\ run' = [run EXCEPT !.chars = Tail(@), !.pc = "slice"]
       \/ /\ run.chars = <<>>
          /\ run' = [run EXCEPT !.pc = "slice"]
    /\ UNCHANGED <<fs, object, mpu, calls, prev, interfered>>
    /\ UnchangedShared

\* &path[index..]
SP_Slice ==
    /\ IsSanitize
    /\ run.pc = "slice"
    /\ \/ /\ byte_slice(run.path, run.index).ok
          /\ run' = [run EXCEPT !.pc = "returned", !.status = "ok",
                                !.returned = Some(byte_slice(run.path, run.index).value)]
       \/ /\ ~byte_slice(run.path, run.index).ok
          /\ run' = unwrap_panic(run, "slice")
    /\ UNCHANGED <<fs, object, mpu, calls, prev, interfered>>
    /\ UnchangedShared

\* sanitize_prefix_path applied to its own result.
SP_Again ==
    /\ run.op = "sanitize_prefix_path"
    /\ run.status = "ok"
    /\ run.back = None
    /\ run' = [NoRun EXCEPT !.op = "sanitize_prefix_path", !.pc = "is_empty",
                            !.status = "running", !.args = run.args,
                            !.path = run.returned[1], !.back = run.returned]
    /\ UNCHANGED <<fs, object, mpu, calls, prev, interfered>>
    /\ UnchangedShared

NextSanitize == SP_IsEmpty \/ SP_Loop \/ SP_Slice \/ SP_Again

SpecSanitize == InitSanitize /\ [][NextSanitize]_vars

\* ------------------------------- rot.rs: two transfers on one client handle

\* A lock that is handed out whether or not it is held.
lock_free_always(c) == TRUE

\* Mutex::lock returns when no guard is alive; until then the caller blocks.
lock_free(c) == c = None

\* client.lock().unwrap().upload_file(..).await / ....download_file(..).await: the
\* MutexGuard is a temporary of the statement, alive until the transfer returned.
guard(t) == Some(t)

\* Two transfers are started on clones of one Arc<Mutex<AliyunClient>>, each with
\* some number of remote calls to make.
InitShared ==
    /\ fs = [p \in Paths |-> <<>>]
    /\ object = None
    /\ mpu = NoUpload
    /\ calls = <<>>
    /\ run = NoRun
    /\ prev = NoRun
    /\ interfered = FALSE
    /\ client = None
    /\ tasks \in [Tasks -> {[pc |-> "start", remote_calls |-> n, remote_left |-> n] :
                                n \in 1..MaxRemoteCalls}]

\* client.lock(): the transfer is entered with the guard alive.
TaskLock(t) ==
    /\ tasks[t].pc = "start"
    /\ lock_free(client)
    /\ client' = guard(t)
    /\ tasks' = [tasks EXCEPT ![t].pc = "local"]
    /\ UnchangedSession

\* The transfer issues a remote call: ...send().await
TaskRemoteCall(t) ==
    /\ tasks[t].pc = "local"
    /\ tasks[t].remote_left > 0
    /\ tasks' = [tasks EXCEPT ![t].pc = "remote"]
    /\ UNCHANGED client
    /\ UnchangedSession

\* The remote call returns and the transfer goes on with its local step (reading,
\* sealing or writing a chunk).
TaskRemoteReturn(t) ==
    /\ tasks[t].pc = "remote"
    /\ tasks' = [tasks EXCEPT ![t].pc = "local", ![t].remote_left = @ - 1]
    /\ UNCHANGED client
    /\ UnchangedSession

\* upload_file / download_file returns; the statement ends and the guard is dropped.
TaskReturn(t) ==
    /\ tasks[t].pc = "local"
    /\ tasks[t].remote_left = 0
    /\ tasks' = [tasks EXCEPT ![t].pc = "returned"]
    /\ client' = IF client = guard(t) THEN None ELSE client
    /\ UnchangedSession

NextShared ==
    \E t \in Tasks :
        \/ TaskLock(t)
        \/ TaskRemoteCall(t)
        \/ TaskRemoteReturn(t)
        \/ TaskReturn(t)

SpecShared == InitShared /\ [][NextShared]_vars

\* ------------------------------------------------------------- claims

\* Failures the environment injects into a call (a local I/O error, a failed or
\* incomplete answer of the store), as opposed to those the code decides.
FaultCauses == {"io", "store", "upload_id"}

\* The plaintext chunks a reader can yield.
PlainChunks == UNION {[1..n -> DataBytes] : n \in 0..CHUNK_SIZE}

Decrypting == run.op \in {"decrypt_file", "download_file"} /\ run.password # None

\* The second command of an undisturbed session whose first command succeeded,
\* run with the same password choice and stopped by no injected fault.
HonestSecond(first, second) ==
    /\ run.op = second
    /\ prev.op = first
    /\ prev.status = "ok"
    /\ run.password = prev.password
    /\ ~interfered
    /\ Ended(run)
    /\ run.cause \notin FaultCauses

\* C1: encrypt_file followed by decrypt_file under the same password gives back
\* the input file byte for byte, for every file length, and each of the two runs
\* processes ceil(size / chunk size) chunks of its own input.
C1_CodecRoundTrip ==
    /\ HonestSecond("encrypt_file", "decrypt_file") =>
          /\ run.status = "ok"
          /\ fs["dec"] = fs["plain"]
          /\ Len(run.chunks_out) = DivCeil(Len(fs["enc"]), CHUNK_SIZE_WITH_TAG)
          /\ Len(run.chunks_out) = DivCeil(Len(fs["plain"]), CHUNK_SIZE)
    /\ (run.op = "encrypt_file" /\ ~interfered /\ Ended(run) /\ run.cause \notin FaultCauses) =>
          /\ run.status = "ok"
          /\ Len(run.chunks_out) = DivCeil(Len(fs["plain"]), CHUNK_SIZE)

\* C1 witness: a round trip of a three-byte file (two chunks, the last one short).
C1_Witness ==
    /\ HonestSecond("encrypt_file", "decrypt_file")
    /\ run.status = "ok"
    /\ Len(fs["plain"]) = CHUNK_SIZE + 1
    /\ fs["dec"] = fs["plain"]

\* C2: upload_file followed by download_file under the same password choice (a
\* password on both sides or none) gives back the local file byte for byte, for
\* every file length N >= 0.
C2_TransferRoundTrip ==
    HonestSecond("upload_file", "download_file") =>
        /\ run.status = "ok"
        /\ fs["dl"] = fs["plain"]

\* C2, what the code does: the round trip holds whenever the file is not empty or
\* no password is used.
C2_RoundTripUnlessEmptySealed ==
    (HonestSecond("upload_file", "download_file")
        /\ (Len(fs["plain"]) > 0 \/ run.password = None)) =>
        /\ run.status = "ok"
        /\ fs["dl"] = fs["plain"]

\* C3, as claimed: decrypt(encrypt(P, key), key) is exactly P, nothing appended.
C3_DecryptIsPayload ==
    (Decrypting /\ run.pc = "opened") =>
        \A P \in PlainChunks :
            run.buffer = encrypt(P, run.key) => run.result = P

\* C3, amended: decrypt(encrypt(P, key), key) has the length of the sealed chunk,
\* len(P) + TAG_LEN; its first len(P) bytes are P and TAG_LEN bytes follow them.
C3_DecryptIsPayloadAndTag ==
    (Decrypting /\ run.pc = "opened") =>
        \A P \in PlainChunks :
            run.buffer = encrypt(P, run.key) =>
                /\ Len(run.result) = Len(P) + TAG_LEN
                /\ SubSeq(run.result, 1, Len(P)) = P
                /\ run.result # P

\* C3 witness: decrypt has returned for a sealed chunk of CHUNK_SIZE bytes.
C3_Witness ==
    /\ Decrypting
    /\ run.pc = "opened"
    /\ \E P \in PlainChunks : Len(P) = CHUNK_SIZE /\ run.buffer = encrypt(P, run.key)

\* C4: a chunk is opened only if it is, byte for byte, a chunk sealed under the
\* key in use, and then the plaintext written is the one that was sealed; a chunk
\* that is not ends the command with nothing written for it, and under another
\* password than the sealing one no chunk is written at all.
C4_FailsClosed ==
    /\ (Decrypting /\ run.pc \in {"opened", "write"}) =>
          \E P \in PlainChunks :
              /\ run.buffer = encrypt(P, run.key)
              /\ run.pc = "write" => run.write_buffer = P
    /\ (Decrypting /\ run.status = "exit" /\ run.cause = "auth") =>
          /\ \A P \in PlainChunks : run.buffer # encrypt(P, run.key)
          /\ Len(run.chunks_out) = Len(run.chunks_in) - 1
          /\ Len(fs[run.output]) = Sum(run.chunks_out)
    /\ (Decrypting /\ prev.password # run.password) => run.chunks_out = <<>>

\* C4 witness: the second chunk of a changed ciphertext was refused after the
\* first one was written.
C4_Witness ==
    /\ Decrypting
    /\ interfered
    /\ run.password = prev.password
    /\ run.status = "exit"
    /\ run.cause = "auth"
    /\ Len(run.chunks_out) = 1

\* The positions in calls of the calls of one remote operation.
CallsOf(name) == {i \in 1..Len(calls) : calls[i].call = name}

\* The upload_part calls the store answered for part number n.
PartCallsFor(n) ==
    {i \in CallsOf("upload_part") : calls[i].part_number = n /\ calls[i].ok}

\* C5: the one complete_multipart_upload call of an upload is given as many parts
\* as the reader yielded chunks, numbered 1, 2, ..., N in this order, and part i
\* carries the ETag the store returned to the one upload_part call numbered i.
C5_CompleteGetsEveryPart ==
    run.op = "upload_file" =>
        /\ Cardinality(CallsOf("complete_multipart_upload")) <= 1
        /\ \A c \in CallsOf("complete_multipart_upload") :
              LET parts == calls[c].parts
              IN  /\ Len(parts) = Len(run.chunks_in)
                  /\ ~interfered => Len(parts) = DivCeil(Len(fs["plain"]), CHUNK_SIZE)
                  /\ \A k \in 1..Len(parts) :
                        /\ parts[k].part_number = k
                        /\ Cardinality(PartCallsFor(k)) = 1
                        /\ \A j \in PartCallsFor(k) :
                              /\ j < c
                              /\ calls[j].e_tag # None => parts[k].e_tag = calls[j].e_tag[1]

\* C5 witness: an upload of two chunks was completed with the two ETags the store
\* returned.
C5_Witness ==
    /\ run.op = "upload_file"
    /\ run.status = "ok"
    /\ \E c \in CallsOf("complete_multipart_upload") :
          /\ calls[c].ok
          /\ Len(calls[c].parts) = 2
          /\ \A k \in 1..2 : calls[c].parts[k].e_tag # 0

\* C6: a download never consumes more than the declared length L, one that
\* completes has consumed chunks summing to exactly L, with or without a
\* password, and one whose body ends before L bytes does not complete.
C6_DownloadConsumesDeclaredLength ==
    (run.op = "download_file" /\ run.content_length # None /\ run.content_length[1] >= 0) =>
        /\ Sum(run.chunks_in) = run.pos
        /\ run.pos <= run.content_length[1]
        /\ run.status = "ok" => Sum(run.chunks_in) = run.content_length[1]
        /\ run.avail < run.content_length[1] => run.status # "ok"
        /\ (run.status = "exit" /\ run.cause = "eof") => run.pos < run.content_length[1]

\* C6 witness: a password download of more than one block has completed.
C6_Witness ==
    /\ run.op = "download_file"
    /\ run.password # None
    /\ run.status = "ok"
    /\ Len(run.chunks_in) = 2
    /\ run.content_length[1] > CHUNK_SIZE_WITH_TAG

\* The lengths of the sealed chunks of an n-byte file.
SealedLens(n) ==
    [i \in 1..DivCeil(n, CHUNK_SIZE) |->
        IF i < DivCeil(n, CHUNK_SIZE) \/ n % CHUNK_SIZE = 0
        THEN CHUNK_SIZE + TAG_LEN
        ELSE (n % CHUNK_SIZE) + TAG_LEN]

\* C7: sealing an N-byte file (encrypt_file, or upload_file with a password) gives
\* ceil(N/C) chunks of C+T bytes, the last one of (N mod C)+T bytes unless N is a
\* multiple of C, and N + T*ceil(N/C) bytes of ciphertext in all.
C7_SealedChunkLengths ==
    LET n == Len(fs["plain"])
    IN  /\ (run.op = "encrypt_file" /\ run.status = "ok" /\ ~interfered) =>
              /\ run.chunks_out = SealedLens(n)
              /\ Len(fs["enc"]) = n + TAG_LEN * DivCeil(n, CHUNK_SIZE)
        /\ (run.op = "upload_file" /\ run.password # None /\ run.status = "ok" /\ ~interfered) =>
              /\ run.chunks_out = SealedLens(n)
              /\ object # None
              /\ Len(object[1]) = n + TAG_LEN * DivCeil(n, CHUNK_SIZE)

\* C7 witness: a password upload of three bytes made a full and a short sealed chunk.
C7_Witness ==
    /\ run.op = "upload_file"
    /\ run.password # None
    /\ run.status = "ok"
    /\ ~interfered
    /\ run.chunks_out = <<CHUNK_SIZE + TAG_LEN, 1 + TAG_LEN>>

\* A step of the running command has failed.
StepFailed == run.cause # "none"

C8_Inv ==
    run.op = "upload_file" =>
        /\ \A i \in 1..Len(calls) : ~calls[i].ok => i = Len(calls)
        /\ \A i, j \in CallsOf("upload_part") :
              calls[i].part_number = calls[j].part_number => i = j
        /\ StepFailed =>
              /\ Failed(run)
              /\ object = None
              /\ mpu.state # "completed"
              /\ run.pc # "complete" => CallsOf("complete_multipart_upload") = {}

C8_Act ==
    (run.op = "upload_file" /\ StepFailed /\ run'.op = "upload_file") =>
        /\ calls' = calls
        /\ mpu' = mpu
        /\ object' = object

\* C8: once a step of upload_file has failed, the command is over: no part is
\* uploaded or retried after it, complete_multipart_upload is not called, and the
\* multipart upload is never completed.
C8_FailedUploadStops == []C8_Inv /\ [][C8_Act]_vars

\* C8 witness: the second upload_part call failed after the first part was stored.
C8_Witness ==
    /\ run.op = "upload_file"
    /\ run.status = "exit"
    /\ run.pc = "upload_part"
    /\ run.part_number = 2
    /\ Len(mpu.parts) = 1
    /\ ~calls[Len(calls)].ok

C9_Inv ==
    (run.op = "download_file" /\ StepFailed) =>
        /\ Failed(run)
        /\ ~run.reported
        /\ Len(run.chunks_out) <= Len(run.chunks_in)
        /\ Len(run.chunks_in) <= Len(run.chunks_out) + 1
        /\ Len(fs["dl"]) = Sum(run.chunks_out)
        /\ (prev.status = "ok" /\ prev.password = run.password /\ ~interfered) =>
              fs["dl"] = SubSeq(fs["plain"], 1, Len(fs["dl"]))

C9_Act ==
    (run.op = "download_file" /\ StepFailed) =>
        /\ fs' = fs
        /\ run' = run
        /\ calls' = calls

\* C9: once a step of download_file has failed, the command is over: no chunk is
\* read, opened or written after it, the local file holds the plaintext of the
\* chunks before the failing one and no more, and no success is reported.
C9_FailedDownloadStops == []C9_Inv /\ [][C9_Act]_vars

\* C9 witness: the second chunk of a download failed authentication after the
\* first was written.
C9_Witness ==
    /\ run.op = "download_file"
    /\ run.status = "exit"
    /\ run.cause = "auth"
    /\ Len(run.chunks_in) = 2
    /\ Len(run.chunks_out) = 1
    /\ Len(fs["dl"]) = CHUNK_SIZE

IterOps == {"encrypt_file", "decrypt_file", "upload_file"}

\* The iterator of the running command has been built.
HasIter(r) == r.op \in IterOps /\ r.pc \notin {"idle", "filename", "open", "begin", "iter"}

\* What the first i chunks returned add up to.
Returned(r, i) == Sum(SubSeq(r.chunks_in, 1, i))

C11_Inv ==
    HasIter(run) =>
        /\ run.file_size >= 0
        /\ run.file_size + Sum(run.chunks_in) = run.original_file_size
        /\ \A i \in 1..Len(run.chunks_in) :
              /\ run.chunks_in[i] > 0
              /\ run.chunks_in[i] = Min(run.original_file_size - Returned(run, i - 1),
                                        run.chunk_size)
        /\ run.pc = "operation" => Len(run.buffer) = run.chunks_in[Len(run.chunks_in)]

C11_Act ==
    (HasIter(run) /\ HasIter(run') /\ run'.op = run.op) =>
        /\ run'.file_size <= run.file_size
        /\ Len(run'.chunks_in) > Len(run.chunks_in) =>
              /\ run.file_size > 0
              /\ Len(run'.chunks_in) = Len(run.chunks_in) + 1
              /\ Len(run'.buffer) = Min(run.file_size, run.chunk_size)
              /\ run'.file_size = run.file_size - Len(run'.buffer)
        /\ (run.pc = "read" /\ run'.pc \in {"returned", "complete"}) => run.file_size = 0
        /\ (run.pc = "read" /\ run.file_size = 0 /\ run' # run) =>
              /\ run'.pc \in {"returned", "complete"}
              /\ run'.chunks_in = run.chunks_in

\* C11: the remaining size of a FileChunkIterator never grows; a read_chunk that
\* returns a chunk returns min(remaining, chunk size) bytes and lowers remaining by
\* as much; it returns None exactly when remaining is 0; and remaining plus the
\* bytes returned so far is the size captured at construction.
C11_IteratorCountsDown == []C11_Inv /\ [][C11_Act]_vars

\* C11 witness: an iterator over three bytes has returned a full and a short chunk
\* and then None.
C11_Witness ==
    /\ run.op \in IterOps
    /\ run.chunk_size = CHUNK_SIZE
    /\ run.original_file_size = CHUNK_SIZE + 1
    /\ run.chunks_in = <<CHUNK_SIZE, 1>>
    /\ run.file_size = 0
    /\ run.pc \in {"returned", "complete"}

C12_Inv ==
    run.op \in IterOps =>
        /\ run.cause = "eof" =>
              /\ run.status = "exit"
              /\ run.pc = "read"
              /\ run.file_size > 0
              /\ Len(fs[run.input]) < run.pos + to_read(run)
              /\ run.file_size + Sum(run.chunks_in) = run.original_file_size
        /\ run.pc = "operation" => Len(run.buffer) = run.chunks_in[Len(run.chunks_in)]
        /\ \A i \in 1..Len(run.chunks_in) :
              run.chunks_in[i] < run.chunk_size =>
                  /\ i = Len(run.chunks_in)
                  /\ run.file_size = 0
                  /\ run.original_file_size - Returned(run, i - 1) < run.chunk_size

C12_Act ==
    (run.op \in IterOps /\ run'.op = run.op /\ run.cause = "none" /\ run'.cause = "eof") =>
        /\ Len(fs[run.input]) < run.pos + to_read(run)
        /\ run'.file_size = run.file_size
        /\ run'.chunks_in = run.chunks_in
        /\ run'.chunks_out = run.chunks_out
        /\ run'.buffer = run.buffer
        /\ fs' = fs

\* C12: when the file holds fewer bytes than read_chunk asks for, read_chunk is an
\* I/O error: no chunk is returned, remaining stays as it was, and the command
\* ends; a chunk shorter than the chunk size is returned only when less than a
\* chunk size remained.
C12_ShortReadIsError == []C12_Inv /\ [][C12_Act]_vars

\* C12 witness: the input was cut after its first chunk was read and the second
\* read_chunk failed.
C12_Witness ==
    /\ run.op \in IterOps
    /\ interfered
    /\ run.cause = "eof"
    /\ Len(run.chunks_in) = 1
    /\ run.file_size > 0

\* The names that are a file name: a final path component other than "." and "..".
IsFileName(x) == x # <<>> /\ x # <<".">> /\ x # <<".", ".">>

\* A name without its trailing extension segment.
WithoutExtension(y) ==
    IF Dots(y) = {} \/ LastDot(y) = 1 THEN y ELSE SubSeq(y, 1, LastDot(y) - 1)

Naming == run.op = "get_crypt_file_name" /\ IsFileName(run.path)

\* C13: for every file name x, the encryption name is x followed by ".enc", the
\* decryption name is the name without its trailing extension segment, the
\* decryption name of the encryption name of x is x, and no error is returned.
C13_NamesRoundTrip ==
    Naming =>
        /\ (run.pc \in {"named", "back"} /\ run.is_encrypt) =>
              /\ run.filename[1].ok
              /\ run.filename[1].value = run.path \o <<".", "e", "n", "c">>
        /\ (run.pc = "named" /\ ~run.is_encrypt) =>
              /\ run.filename[1].ok
              /\ run.filename[1].value = WithoutExtension(run.path)
        /\ run.pc = "back" =>
              /\ run.back[1].ok
              /\ run.back[1].value = run.path

\* C13, what the code does: the same for the file names that are valid Unicode;
\* no call returns an error.
C13_UnicodeNamesRoundTrip ==
    /\ (Naming /\ to_str(run.path) # None) => C13_NamesRoundTrip
    /\ (run.op = "get_crypt_file_name" /\ run.filename # None) => run.filename[1].ok
    /\ (run.op = "get_crypt_file_name" /\ run.back # None) => run.back[1].ok

\* C14: an upload without a password runs the chunk loop of an upload with one:
\* in both modes part k of the upload has number k and there are ceil(N/C) parts;
\* without a password the body of part k is chunk k of the file unchanged (with
\* one, chunk k sealed), and the completed object is the file.
C14_PlainUploadPassesThrough ==
    (run.op = "upload_file" /\ ~interfered) =>
        /\ mpu.state = "open" =>
              /\ Len(mpu.parts) = Len(run.chunks_out)
              /\ \A k \in 1..Len(mpu.parts) :
                    /\ mpu.parts[k].part_number = k
                    /\ mpu.parts[k].body =
                          IF run.password = None
                          THEN ChunkOf(fs["plain"], k, CHUNK_SIZE)
                          ELSE encrypt(ChunkOf(fs["plain"], k, CHUNK_SIZE), run.key)
        /\ run.pc = "complete" =>
              Len(run.upload_parts) = DivCeil(Len(fs["plain"]), CHUNK_SIZE)
        /\ (run.status = "ok" /\ run.password = None) => object = Some(fs["plain"])

\* C14 witness: a three-byte file was uploaded without a password in two parts.
C14_Witness ==
    /\ run.op = "upload_file"
    /\ run.password = None
    /\ ~interfered
    /\ run.status = "ok"
    /\ Len(run.upload_parts) = 2
    /\ Len(fs["plain"]) = CHUNK_SIZE + 1
    /\ object = Some(fs["plain"])

\* The one sealed form of plaintext chunk P under password pw.
SealedWith(pw, P) == seal_in_place_append_tag(derive_key(pw, SALT), NONCE, AAD, P)

\* The key of the running command has been set up.
KeyIsSet ==
    /\ run.password # None
    /\ \/ run.op \in {"upload_file", "download_file"}
       \/ run.op \in {"encrypt_file", "decrypt_file"} /\ run.pc \notin {"idle", "open", "create"}

\* C15: the key in use is the one function of the password (fixed salt), a sealed
\* chunk is the one function of password and plaintext chunk (fixed nonce and
\* associated data), so equal plaintext chunks of a file give equal sealed chunks,
\* whatever their position, the file or the command that seals them.
C15_SealingIsDeterministic ==
    /\ KeyIsSet => run.key = derive_key(run.password[1], SALT)
    /\ (run.password # None /\ run.op = "encrypt_file" /\ run.pc = "write") =>
          run.write_buffer = SealedWith(run.password[1], run.buffer)
    /\ (run.password # None /\ run.op = "upload_file" /\ run.pc = "upload_part") =>
          run.write_buffer = SealedWith(run.password[1], run.buffer)
    /\ (run.password # None /\ run.op = "encrypt_file" /\ ~interfered) =>
          \A i, j \in 1..Len(run.chunks_out) :
              ChunkOf(fs["plain"], i, CHUNK_SIZE) = ChunkOf(fs["plain"], j, CHUNK_SIZE) =>
                  ChunkOf(fs["enc"], i, CHUNK_SIZE_WITH_TAG) = ChunkOf(fs["enc"], j, CHUNK_SIZE_WITH_TAG)
    /\ (run.password # None /\ run.op = "upload_file" /\ ~interfered /\ mpu.state = "open") =>
          \A i, j \in 1..Len(mpu.parts) :
              ChunkOf(fs["plain"], i, CHUNK_SIZE) = ChunkOf(fs["plain"], j, CHUNK_SIZE) =>
                  mpu.parts[i].body = mpu.parts[j].body

\* C15 witness: a file of two equal chunks was sealed into two equal chunks.
C15_Witness ==
    /\ run.op = "encrypt_file"
    /\ run.status = "ok"
    /\ ~interfered
    /\ Len(fs["plain"]) = 2 * CHUNK_SIZE
    /\ ChunkOf(fs["plain"], 1, CHUNK_SIZE) = ChunkOf(fs["plain"], 2, CHUNK_SIZE)
    /\ ChunkOf(fs["enc"], 1, CHUNK_SIZE_WITH_TAG) = ChunkOf(fs["enc"], 2, CHUNK_SIZE_WITH_TAG)

\* The transfer t is under way: entered and not yet returned.
InTransfer(t) == tasks[t].pc \in {"local", "remote"}

\* C16, as claimed: the handle is held only while a remote call is being made.
C16_HeldPerRemoteCall ==
    \A t \in Tasks : client = Some(t) => tasks[t].pc = "remote"

\* C16, amended: a transfer holds the handle from before its first remote call
\* until it has returned, local steps included; two transfers never hold it at
\* once, and so never interleave: while one is under way the other has not begun
\* or has returned.
C16_HeldPerTransfer ==
    /\ \A t \in Tasks : client = Some(t) <=> InTransfer(t)
    /\ \A t, u \in Tasks : (InTransfer(t) /\ InTransfer(u)) => t = u
    /\ \A t, u \in Tasks :
          (InTransfer(t) /\ u # t) =>
              \/ tasks[u].pc = "start" /\ tasks[u].remote_left = tasks[u].remote_calls
              \/ tasks[u].pc = "returned" /\ tasks[u].remote_left = 0

\* C16 witness: the upload is between two of its remote calls and holds the handle
\* while the download waits for it.
C16_Witness ==
    /\ client = Some("upload")
    /\ tasks["upload"].pc = "local"
    /\ tasks["upload"].remote_left > 0
    /\ tasks["upload"].remote_left < tasks["upload"].remote_calls
    /\ tasks["download"].pc = "start"

\* The calls made with the multipart upload: upload_part and the completion.
UploadCalls == CallsOf("upload_part") \cup CallsOf("complete_multipart_upload")

ChunkOps == IterOps \cup {"download_file"}

C18_Inv ==
    run.op \in ChunkOps =>
        /\ Len(run.chunks_out) <= Len(run.chunks_in)
        /\ Len(run.chunks_in) <= Len(run.chunks_out) + 1
        /\ run.pc \in {"read", "loop"} => Len(run.chunks_in) = Len(run.chunks_out)
        /\ (run.op = "upload_file" /\ run.status = "running") =>
              /\ Cardinality({i \in CallsOf("upload_part") : calls[i].ok}) = Len(run.chunks_out)
              /\ mpu.state = "open" => Len(mpu.parts) = Len(run.chunks_out)
        /\ (run.op # "upload_file" /\ run.status = "running"
                /\ run.pc \notin {"open", "create", "get_object"}) =>
              Len(fs[run.output]) = Sum(run.chunks_out)

C18_Act ==
    (run.op \in ChunkOps /\ run'.op = run.op /\ Len(run'.chunks_in) > Len(run.chunks_in)) =>
        /\ Len(run.chunks_in) = Len(run.chunks_out)
        /\ Len(run'.chunks_in) = Len(run.chunks_in) + 1
        /\ run'.chunks_out = run.chunks_out

\* C18: in upload_file, download_file and process_file a chunk is read only when
\* every chunk read before it has been transformed and handed to its sink
\* (upload_part returned, or the local write was made): at most one chunk is in
\* flight.
C18_OneChunkInFlight == []C18_Inv /\ [][C18_Act]_vars

\* C18 witness: an upload whose first part was stored is about to read its second
\* chunk.
C18_Witness ==
    /\ run.op = "upload_file"
    /\ run.status = "running"
    /\ run.pc = "read"
    /\ run.file_size > 0
    /\ Len(run.chunks_in) = 1
    /\ Len(mpu.parts) = 1

\* The declared length of the object being downloaded.
DeclaredLength == run.content_length[1]

\* The download has read its final chunk.
FinalChunkRead ==
    /\ run.op = "download_file"
    /\ run.content_length # None
    /\ DeclaredLength >= 0
    /\ run.pc \in {"flush", "returned"} \/ (run.pc \in {"operation", "opened", "write"}
                                            /\ ~full_block(run.content_len))

\* C19, as claimed: floor(L/(C+T)) reads of C+T bytes are made and the final chunk
\* has L mod (C+T) bytes.
C19_FinalChunkIsRemainder ==
    FinalChunkRead =>
        /\ Cardinality({i \in 1..Len(run.chunks_in) : run.chunks_in[i] = CHUNK_SIZE_WITH_TAG})
              = DeclaredLength \div CHUNK_SIZE_WITH_TAG
        /\ run.chunks_in[Len(run.chunks_in)] = DeclaredLength % CHUNK_SIZE_WITH_TAG

\* C19, amended: chunks of C+T bytes are read while more than C+T bytes remain,
\* then the remainder is read as the final chunk: max(ceil(L/(C+T)), 1) chunks in
\* all, the final one of L mod (C+T) bytes, or of C+T bytes when L is a positive
\* multiple of C+T.
C19_FinalChunkIsRest ==
    (run.op = "download_file" /\ run.content_length # None /\ DeclaredLength >= 0) =>
        /\ \A i \in 1..Len(run.chunks_in) :
              run.chunks_in[i] =
                  IF DeclaredLength - (i - 1) * CHUNK_SIZE_WITH_TAG > CHUNK_SIZE_WITH_TAG
                  THEN CHUNK_SIZE_WITH_TAG
                  ELSE DeclaredLength - (i - 1) * CHUNK_SIZE_WITH_TAG
        /\ FinalChunkRead =>
              LET n == Len(run.chunks_in)
              IN  /\ n = IF DeclaredLength = 0 THEN 1
                         ELSE DivCeil(DeclaredLength, CHUNK_SIZE_WITH_TAG)
                  /\ \A i \in 1..(n - 1) : run.chunks_in[i] = CHUNK_SIZE_WITH_TAG
                  /\ run.chunks_in[n] =
                        IF DeclaredLength > 0 /\ DeclaredLength % CHUNK_SIZE_WITH_TAG = 0
                        THEN CHUNK_SIZE_WITH_TAG
                        ELSE DeclaredLength % CHUNK_SIZE_WITH_TAG
                  /\ Len(run.buffer) = run.chunks_in[n]

\* C19 witness: an object of two whole blocks was downloaded in two reads of C+T
\* bytes, the second one the final chunk.
C19_Witness ==
    /\ run.op = "download_file"
    /\ run.status = "ok"
    /\ run.content_length = Some(2 * CHUNK_SIZE_WITH_TAG)
    /\ run.chunks_in = <<CHUNK_SIZE_WITH_TAG, CHUNK_SIZE_WITH_TAG>>

\* decrypt_file and then download_file were given the same stream and password,
\* and neither was stopped by an injected fault.
SameStreamBoth ==
    /\ run.op = "download_file"
    /\ prev.op = "decrypt_file"
    /\ Ended(run)
    /\ ~interfered
    /\ run.cause \notin FaultCauses
    /\ prev.cause \notin FaultCauses

\* C20: download_file of an object with body S and decrypt_file of a local file
\* with content S, under the same password, both fail or both succeed with the
\* same output bytes.
C20_SameOutcome ==
    SameStreamBoth =>
        /\ Failed(run) <=> Failed(prev)
        /\ run.status = "ok" => fs["dl"] = fs["dec"]

\* C20, what the code does: the outcomes agree for every stream but the empty one.
C20_SameOutcomeUnlessEmpty ==
    (SameStreamBoth /\ run.body # <<>>) =>
        /\ Failed(run) <=> Failed(prev)
        /\ fs["dl"] = fs["dec"]

\* C21: encrypt_file writes for F the bytes that the parts of a password upload
\* of F hold in part order, so the object of such an upload equals the locally
\* encrypted file, and a download with the password gives back F from it.
C21_SealedAlike ==
    /\ (run.op = "encrypt_file" /\ run.status = "ok" /\ ~interfered) =>
          fs["enc"] = SealedFile(fs["plain"], run.password[1])
    /\ (run.op = "upload_file" /\ run.password # None /\ ~interfered) =>
          /\ run.pc = "complete" =>
                Concat([k \in 1..Len(mpu.parts) |-> PartBody(mpu, k)])
                    = SealedFile(fs["plain"], run.password[1])
          /\ run.status = "ok" => object = Some(SealedFile(fs["plain"], run.password[1]))
    /\ (HonestSecond("upload_file", "download_file") /\ run.password # None) =>
          /\ run.status = "ok"
          /\ fs["dl"] = fs["plain"]

\* C21, what the code does: the bytes are alike for every file, and the download
\* gives back every file but the empty one.
C21_SealedAlikeUnlessEmpty ==
    /\ (run.op = "encrypt_file" /\ run.status = "ok" /\ ~interfered) =>
          fs["enc"] = SealedFile(fs["plain"], run.password[1])
    /\ (run.op = "upload_file" /\ run.password # None /\ ~interfered) =>
          /\ run.pc = "complete" =>
                Concat([k \in 1..Len(mpu.parts) |-> PartBody(mpu, k)])
                    = SealedFile(fs["plain"], run.password[1])
          /\ run.status = "ok" => object = Some(SealedFile(fs["plain"], run.password[1]))
    /\ (HonestSecond("upload_file", "download_file") /\ run.password # None
            /\ fs["plain"] # <<>>) =>
          /\ run.status = "ok"
          /\ fs["dl"] = fs["plain"]

\* C22: download_file flushes its output at most once, and only when all declared
\* bytes were read and every chunk read was written; a run that ended ok has
\* flushed, and a run in which a step failed has not.
C22_FlushAfterLastChunk ==
    run.op = "download_file" =>
        /\ run.flushes <= 1
        /\ run.flushes = 1 =>
              /\ run.status = "ok"
              /\ run.pos = DeclaredLength
              /\ Sum(run.chunks_in) = DeclaredLength
              /\ Len(run.chunks_out) = Len(run.chunks_in)
              /\ Len(fs["dl"]) = Sum(run.chunks_out)
              /\ ~run.unflushed
        /\ run.status = "ok" => run.flushes = 1
        /\ StepFailed => run.flushes = 0

\* C22 witness: a download of two chunks was flushed after its second write.
C22_Witness ==
    /\ run.op = "download_file"
    /\ run.flushes = 1
    /\ Len(run.chunks_out) = 2
    /\ run.pc = "returned"

\* C23: a run of encrypt_file or decrypt_file that returned ok has flushed its
\* output file after the last write, as a download that returned ok has: no
\* written byte of a successful run is left unflushed.
C23_SuccessIsFlushed ==
    (run.op \in {"encrypt_file", "decrypt_file", "download_file"} /\ run.status = "ok") =>
        /\ ~run.unflushed
        /\ run.flushes = 1

\* C23, what the code does: only download_file flushes; process_file returns ok
\* with the bytes of its writes unflushed whenever it wrote a chunk.
C23_OnlyDownloadFlushes ==
    /\ (run.op = "download_file" /\ run.status = "ok") => (~run.unflushed /\ run.flushes = 1)
    /\ (run.op \in {"encrypt_file", "decrypt_file"} /\ run.status = "ok") =>
          /\ run.flushes = 0
          /\ run.unflushed <=> run.chunks_out # <<>>

\* C24: encrypt_file and decrypt_file leave the bytes of their input file as
\* they were, whatever the input path and the output path, on success and on
\* failure.
C24_InputUnchanged ==
    [][run.op \in {"encrypt_file", "decrypt_file"} => fs'[run.input] = fs[run.input]]_vars

\* C24, what the code does: the input is left alone when the output path names
\* another file, and is truncated by File::create when it names the input.
C24_InputUnchangedUnlessSame ==
    [][(run.op \in {"encrypt_file", "decrypt_file"} /\ run.output # run.input)
            => fs'[run.input] = fs[run.input]]_vars

\* C24: the decryption of a file of the current directory whose name has no
\* extension, with the default output name, has emptied its input and failed.
C24_InputLost ==
    /\ run.op = "decrypt_file"
    /\ run.output_path = None
    /\ run.output = run.input
    /\ Dots(run.path) = {}
    /\ fs["plain"] # <<>>
    /\ fs[run.input] = <<>>
    /\ run.status = "exit"
    /\ run.cause = "eof"

\* The command was given the stream that rearrangement a makes of the chunks
\* sealed under its password.
SplicedRun(pw, a) ==
    /\ run.password = Some(pw)
    /\ fs["enc"] = Spliced(SealedPool(fs["plain"], pw), a)

\* A decrypting command ended and no injected fault stopped it.
DecryptionEnded ==
    /\ run.op \in {"decrypt_file", "download_file"}
    /\ Ended(run)
    /\ ~interfered
    /\ run.cause \notin FaultCauses

\* C25: a stream made of whole sealed chunks of streams encrypted under one
\* password, reordered, duplicated or dropped, with a short chunk only last, is
\* opened without error by decrypt_file and by a download with the password,
\* and the output is the plaintext chunks in the same arrangement.
C25_SplicedStreamOpens ==
    DecryptionEnded =>
        \A pw \in Passwords : \A a \in Arrangements(fs["plain"]) :
            SplicedRun(pw, a) =>
                /\ run.status = "ok"
                /\ fs[run.output] = Spliced(PlainPool(fs["plain"]), a)

\* C25, what the code does: decrypt_file opens every such stream, download_file
\* every one that keeps at least one chunk.
C25_SplicedStreamOpensUnlessEmpty ==
    DecryptionEnded =>
        \A pw \in Passwords : \A a \in Arrangements(fs["plain"]) :
            (SplicedRun(pw, a) /\ (run.op = "decrypt_file" \/ a # <<>>)) =>
                /\ run.status = "ok"
                /\ fs[run.output] = Spliced(PlainPool(fs["plain"]), a)

\* C25: a download wrote the plaintext of a stream in which a chunk of another
\* file comes first and the first chunk of the file is repeated after it.
C25_SplicedDownload ==
    /\ run.op = "download_file"
    /\ run.status = "ok"
    /\ ~interfered
    /\ Len(PlainPool(fs["plain"])) = 3
    /\ fs["enc"] = Spliced(SealedPool(fs["plain"], run.password[1]), <<3, 1, 1>>)
    /\ fs["dl"] = Spliced(PlainPool(fs["plain"]), <<3, 1, 1>>)

\* C26: when upload_file has ended, the multipart upload it began is closed on
\* the store, completed or aborted: no ended run leaves it open.
C26_BegunUploadIsClosed ==
    (run.op = "upload_file" /\ Ended(run)) => mpu.state # "open"

\* C26, what the code does: the upload is completed by every run that returns
\* ok, and is left open, with the parts sent so far, by every run that fails
\* after create_multipart_upload; it is never aborted.
C26_FailedUploadStaysOpen ==
    run.op = "upload_file" =>
        /\ mpu.state \in {"none", "open", "completed"}
        /\ run.status = "ok" => mpu.state = "completed"
        /\ (Failed(run) /\ mpu.state # "none") => mpu.state = "open"

\* The loop iterations a command has made are the chunks it has read.
Iterations == Len(run.chunks_in)

\* C27: the iterations of the loop of each command are what its input allows.
\* Upload and codec never make more than ceil(N/C) iterations for an N-byte
\* input read in chunks of C bytes and make exactly that many when they return
\* ok; download makes max(1, ceil(L/(C+T))) iterations when it returns ok.
C27_Inv ==
    /\ (run.op \in {"encrypt_file", "decrypt_file", "upload_file"} /\ run.chunk_size > 0) =>
          /\ Iterations <= DivCeil(run.original_file_size, run.chunk_size)
          /\ run.status = "ok" =>
                Iterations = DivCeil(run.original_file_size, run.chunk_size)
    /\ (run.op = "download_file" /\ run.status = "ok") =>
          /\ DeclaredLength >= 0
          /\ Iterations = IF DeclaredLength = 0 THEN 1
                          ELSE DivCeil(DeclaredLength, CHUNK_SIZE_WITH_TAG)

\* C27: when every file and remote call returns, every run of upload_file,
\* download_file, encrypt_file and decrypt_file ends, in success or in an
\* error exit, after the iterations its input allows.
C27_Terminates ==
    /\ []C27_Inv
    /\ (run.status = "running") ~> Ended(run)

\* C27 witness: an upload of a file of two full chunks returned ok after two
\* iterations.
C27_Witness ==
    /\ run.op = "upload_file"
    /\ run.status = "ok"
    /\ run.original_file_size = 2 * CHUNK_SIZE
    /\ Iterations = 2

\* C28: the tag is stripped only from a buffer that decrypt opened, which has
\* at least T bytes, so result.len() - TAG_LEN is never negative; the plaintext
\* written for a chunk of k bytes has k - T bytes.
C28_StripNeverUnderflows ==
    Decrypting =>
        /\ run.pc = "opened" =>
              /\ Len(run.buffer) >= TAG_LEN
              /\ Len(run.result) = Len(run.buffer)
              /\ Len(run.result) - TAG_LEN >= 0
        /\ run.pc = "write" =>
              /\ Len(run.buffer) >= TAG_LEN
              /\ Len(run.write_buffer) = Len(run.buffer) - TAG_LEN
        /\ \A i \in 1..Len(run.chunks_out) :
              /\ run.chunks_in[i] >= TAG_LEN
              /\ run.chunks_out[i] = run.chunks_in[i] - TAG_LEN

\* C28 witness: the tag was stripped from a last chunk of one byte and its tag,
\* after a full chunk was written.
C28_Witness ==
    /\ run.op = "decrypt_file"
    /\ run.pc = "write"
    /\ run.status = "running"
    /\ Len(run.chunks_out) = 1
    /\ Len(run.buffer) = TAG_LEN + 1
    /\ Len(run.write_buffer) = 1

\* A run of load_from_env read the file and returned.
Loaded == run.op = "load_from_env" /\ run.status = "ok" /\ run.cause = "none"

\* C29: a run of load_from_env that found the file empty or unparseable leaves
\* it holding exactly the serialized empty configuration, which the next run
\* parses; a client is returned exactly when the text parsed and no field of it
\* is empty.
C29_TemplateRestored ==
    Loaded =>
        /\ (run.text = <<>> \/ ~from_str(run.text).ok) =>
              /\ fs[ConfigPath] = to_string(new_empty)
              /\ from_str(fs[ConfigPath]).ok
        /\ run.returned # None <=>
              (from_str(run.text).ok /\ is_valid(from_str(run.text).value))

\* C29, what the code does: the empty configuration is written at the cursor,
\* which read_to_string left at the end of the file, so an unparseable text is
\* kept and the empty configuration appended to it.
C29_TemplateAppended ==
    Loaded =>
        /\ run.text = <<>> => fs[ConfigPath] = to_string(new_empty)
        /\ ~from_str(run.text).ok => fs[ConfigPath] = run.text \o to_string(new_empty)
        /\ from_str(run.text).ok => fs[ConfigPath] = run.text
        /\ run.returned # None <=>
              (from_str(run.text).ok /\ is_valid(from_str(run.text).value))

\* C29: the third run in a row found the file unparseable, longer each time.
C29_StillUnparseable ==
    /\ Loaded
    /\ Len(calls) = 3
    /\ ~from_str(run.text).ok
    /\ Len(run.text) = 3
    /\ ~from_str(fs[ConfigPath]).ok
    /\ Len(fs[ConfigPath]) = 4

\* A well-formed dash token, "-x" or "--xx", as get_skip_chr defines it.
WellFormedDash(t) == get_skip_chr(t) > 0

\* A token "k=v" with non-empty ends that is no dash token.
IsKeyValue(t) ==
    ~starts_with(t, "-") /\ contains(t, "=") /\ ~(starts_with(t, "=") \/ ends_with(t, "="))

\* The role C30 gives each token after the first argument: a well-formed dash
\* token before another one is a flag, any other well-formed dash token an
\* option whose value is the token after it, "k=v" a key and value, every other
\* token a word; of a token "-" or "--" that is no value C30 says nothing, and
\* it is taken as recorded nowhere.
RECURSIVE ClaimedRoles(_)
ClaimedRoles(toks) ==
    IF toks = <<>> THEN <<>>
    ELSE IF WellFormedDash(Head(toks))
         THEN IF Len(toks) >= 2 /\ WellFormedDash(toks[2])
              THEN <<"flag">> \o ClaimedRoles(Tail(toks))
              ELSE IF Len(toks) >= 2
                   THEN <<"option", "value">> \o ClaimedRoles(Tail(Tail(toks)))
              ELSE <<"option">>
    ELSE IF starts_with(Head(toks), "-") THEN <<"dropped">> \o ClaimedRoles(Tail(toks))
    ELSE IF IsKeyValue(Head(toks)) THEN <<"keyvalue">> \o ClaimedRoles(Tail(toks))
    ELSE <<"word">> \o ClaimedRoles(Tail(toks))

\* The roles as the code gives them: a well-formed dash token with no token
\* after it is recorded nowhere.
RECURSIVE CodeRoles(_)
CodeRoles(toks) ==
    IF toks = <<>> THEN <<>>
    ELSE IF WellFormedDash(Head(toks))
         THEN IF Len(toks) >= 2 /\ WellFormedDash(toks[2])
              THEN <<"flag">> \o CodeRoles(Tail(toks))
              ELSE IF Len(toks) >= 2
                   THEN <<"option", "value">> \o CodeRoles(Tail(Tail(toks)))
              ELSE <<"dropped">>
    ELSE IF starts_with(Head(toks), "-") THEN <<"dropped">> \o CodeRoles(Tail(toks))
    ELSE IF IsKeyValue(Head(toks)) THEN <<"keyvalue">> \o CodeRoles(Tail(toks))
    ELSE <<"word">> \o CodeRoles(Tail(toks))

\* The tokens of a role, in input order.
RECURSIVE TokensOf(_, _, _)
TokensOf(toks, roles, role) ==
    IF toks = <<>> THEN <<>>
    ELSE (IF Head(roles) = role THEN <<Head(toks)>> ELSE <<>>)
            \o TokensOf(Tail(toks), Tail(roles), role)

\* The key a token of a role is recorded under, and its value.
KeyOf(toks, roles, i) ==
    IF roles[i] = "keyvalue" THEN splitn(toks[i])[1] ELSE skip(toks[i], get_skip_chr(toks[i]))

ValueOf(toks, roles, i) ==
    IF roles[i] = "keyvalue" THEN splitn(toks[i])[2] ELSE toks[i + 1]

Keyed(roles) == {i \in 1..Len(roles) : roles[i] \in {"option", "keyvalue"}}

\* The result of from_strings is what the roles say: flags with their dashes
\* removed and words in input order, the first word the main command, every
\* option under its key with the value of its last occurrence.
ParsedAs(toks, roles) ==
    /\ run.flags = [i \in 1..Len(TokensOf(toks, roles, "flag")) |->
                        skip(TokensOf(toks, roles, "flag")[i],
                             get_skip_chr(TokensOf(toks, roles, "flag")[i]))]
    /\ LET words == TokensOf(toks, roles, "word")
       IN  /\ run.main_command = IF words = <<>> THEN None ELSE Some(Head(words))
           /\ run.positional = IF words = <<>> THEN <<>> ELSE Tail(words)
    /\ DOMAIN run.optional = {KeyOf(toks, roles, i) : i \in Keyed(roles)}
    /\ \A i \in Keyed(roles) :
          (\A j \in Keyed(roles) : j > i => KeyOf(toks, roles, j) # KeyOf(toks, roles, i))
              => (i < Len(toks) \/ roles[i] = "keyvalue")
                    /\ run.optional[KeyOf(toks, roles, i)] = ValueOf(toks, roles, i)

Parsed == run.op = "from_strings" /\ run.status = "ok"

\* C30: from_strings skips the first argument and records every other token in
\* input order: a well-formed dash token before another one as a flag without
\* its dashes, any other well-formed dash token as an option whose value is the
\* next token, "k=v" as option k with value v, the first remaining token as the
\* main command and the later ones as positional.
C30_TokensClassified ==
    Parsed => ParsedAs(Tail(run.args), ClaimedRoles(Tail(run.args)))

\* C30, what the code does: the same, but a well-formed dash token that is the
\* last argument is recorded nowhere.
C30_TokensClassifiedOrDropped ==
    Parsed => ParsedAs(Tail(run.args), CodeRoles(Tail(run.args)))

\* C30: the arguments "p --r" were parsed into the main command p and no flag.
C30_TrailingFlagDropped ==
    /\ Parsed
    /\ run.args = <<ProgramName, <<"p">>, <<"-", "-", "r">>>>
    /\ run.main_command = Some(<<"p">>)
    /\ run.flags = <<>>
    /\ DOMAIN run.optional = {}

\* The name a well-formed dash token is recorded under: the token without its
\* dashes.
DashName(t) == skip(t, get_skip_chr(t))

Recorded(name) ==
    \/ \E j \in 1..Len(run.flags) : run.flags[j] = name
    \/ name \in DOMAIN run.optional

\* C31: from_strings loses no well-formed dash token: each one after the
\* program name, the last argument included, is in flags or is a key of
\* optional when from_strings returns.
C31_NoDashTokenLost ==
    Parsed =>
        \A i \in 2..Len(run.args) :
            WellFormedDash(run.args[i]) => Recorded(DashName(run.args[i]))

\* C31, what the code does: every well-formed dash token that has an argument
\* after it is recorded; the one that is the last argument is recorded only
\* when an earlier token put its name there.
C31_NoDashTokenLostButLast ==
    Parsed =>
        \A i \in 2..(Len(run.args) - 1) :
            WellFormedDash(run.args[i]) => Recorded(DashName(run.args[i]))

\* C31: the arguments "-c --r" were parsed into the flag c, and r is nowhere.
C31_LastDashTokenLost ==
    /\ Parsed
    /\ run.args = <<ProgramName, <<"-", "c">>, <<"-", "-", "r">>>>
    /\ run.flags = <<<<"c">>>>
    /\ ~Recorded(<<"r">>)

\* The leading slashes and backslashes of a string.
RECURSIVE LeadingSeparators(_)
LeadingSeparators(str) ==
    IF str = <<>> \/ Head(str) \notin {"/", "\\"} THEN <<>>
    ELSE <<Head(str)>> \o LeadingSeparators(Tail(str))

\* C32: sanitize_prefix_path never fails and returns its input without its
\* leading slashes and backslashes, the rest unchanged: the result starts with
\* neither, the input is its leading separators followed by the result, and the
\* function applied to its result returns that result.
C32_LeadingSeparatorsRemoved ==
    run.op = "sanitize_prefix_path" =>
        /\ ~Failed(run)
        /\ run.status = "ok" =>
              /\ run.returned # None
              /\ ~starts_with(run.returned[1], "/")
              /\ ~starts_with(run.returned[1], "\\")
              /\ run.path = LeadingSeparators(run.path) \o run.returned[1]
              /\ run.back # None =>
                    /\ run.returned = run.back
                    /\ run.args = LeadingSeparators(run.args) \o run.returned[1]

\* C32 witness: the function was applied again to the result of removing a
\* slash and a backslash before a two-byte character and a later slash.
C32_Witness ==
    /\ run.op = "sanitize_prefix_path"
    /\ run.status = "ok"
    /\ run.args = <<"/", "\\", "W", "/">>
    /\ run.back = Some(<<"W", "/">>)
    /\ run.returned = Some(<<"W", "/">>)

====
